---- MODULE Spec2Model ----
(***************************************************************************)
(* Model of the wildfire orchestration engine of                           *)
(* src/backend/agents/orchestrator.py: the deterministic physics           *)
(* translator, the guardrail validator, the rate-limit retry wrapper and   *)
(* the closed-loop execute_agent_graph state machine.                      *)
(*                                                                         *)
(* Conventions.  A Python str is a sequence of tokens (words and the       *)
(* single space " "); a dict is a function whose DOMAIN is its key set, so *)
(* dict.get(k, default) is Get.  Velocities are integers in hundredths,    *)
(* multipliers and distances integers in tenths.                           *)
(***************************************************************************)
EXTENDS Integers, Sequences, FiniteSets, TLC

\* ------------------------------------------------------------------ constants
MAX_RETRIES == 2
RATE_LIMIT_RETRY_ATTEMPTS == 3
RATE_LIMIT_BACKOFF_BASE == 20

\* Python's None.
None == [none |-> TRUE]

\* dict.get(k, default)
Get(d, k, default) == IF k \in DOMAIN d THEN d[k] ELSE default

\* str.lower(), on the vegetation spellings the requests use.
Lower(s) ==
    CASE s = "Chaparral" -> "chaparral"
      [] s = "TIMBER" -> "timber"
      [] s = "Brush" -> "brush"
      [] OTHER -> s

\* max(a, b)
Max(a, b) == IF a >= b THEN a ELSE b

\* ------------------------------------------------------------------ strings
SP == " "

\* s[i..] starts with the token sequence pat
StartsAt(s, i, pat) ==
    /\ i + Len(pat) - 1 <= Len(s)
    /\ \A k \in 1..Len(pat) : s[i + k - 1] = pat[k]

\* str.split(sep)[0]: the text before the first occurrence of sep (all of s
\* when sep does not occur).
SplitFirst(s, sep) ==
    LET hits == {i \in 1..Len(s) : StartsAt(s, i, sep)}
    IN  IF hits = {} THEN s
        ELSE LET first == CHOOSE i \in hits : \A j \in hits : i <= j
             IN  SubSeq(s, 1, first - 1)

\* str.strip(): leading and trailing whitespace removed.
Strip(s) ==
    LET solid == {i \in 1..Len(s) : s[i] # SP}
    IN  IF solid = {} THEN <<>>
        ELSE LET lo == CHOOSE i \in solid : \A j \in solid : i <= j
                 hi == CHOOSE i \in solid : \A j \in solid : i >= j
             IN  SubSeq(s, lo, hi)

\* f"{town.get('name')} is {distance}km away."
FormatExposure(town) ==
    Get(town, "name", <<"None">>)
        \o <<SP, "is", SP, ToString(Get(town, "distance_km", 990)), "km", SP, "away.">>

\* ------------------------------------------------------------------ physics
\* The digits after the second decimal are cut off.
RoundDiv_Truncates(n, d) == n \div d

\* round(n / d) on integers.  A tie goes to the even neighbour, which is what
\* round() gives when the double is the tie exactly (x.125, x.375, ...); on
\* the ties the requests of this model produce (1/8, 3.33 * 1.5, 6.67 * 1.5)
\* the interpreter gives the same.
RoundDiv(n, d) ==
    LET q == n \div d
        r == n % d
    IN  IF 2 * r < d THEN q
        ELSE IF 2 * r > d THEN q + 1
        ELSE IF q % 2 = 0 THEN q ELSE q + 1

\* A town between 5 and 15 km sets ELEVATED whatever the threat was.
RECURSIVE TownLoop_Downgrades(_, _, _)
TownLoop_Downgrades(towns, baseline_threat, critical_exposures) ==
    IF towns = <<>> THEN [baseline_threat |-> baseline_threat,
                          critical_exposures |-> critical_exposures]
    ELSE LET town == Head(towns)
             distance == Get(town, "distance_km", 990)
         IN  IF distance < 50
             THEN TownLoop_Downgrades(Tail(towns), "CRITICAL",
                                      Append(critical_exposures, FormatExposure(town)))
             ELSE IF distance < 150
             THEN TownLoop_Downgrades(Tail(towns), "ELEVATED", critical_exposures)
             ELSE TownLoop_Downgrades(Tail(towns), baseline_threat, critical_exposures)

\* The loop ends at the first town under 5 km.
RECURSIVE TownLoop_Break(_, _, _)
TownLoop_Break(towns, baseline_threat, critical_exposures) ==
    IF towns = <<>> THEN [baseline_threat |-> baseline_threat,
                          critical_exposures |-> critical_exposures]
    ELSE LET town == Head(towns)
             distance == Get(town, "distance_km", 990)
         IN  IF distance < 50
             THEN [baseline_threat |-> "CRITICAL",
                   critical_exposures |-> Append(critical_exposures, FormatExposure(town))]
             ELSE IF distance < 150 /\ baseline_threat # "CRITICAL"
             THEN TownLoop_Break(Tail(towns), "ELEVATED", critical_exposures)
             ELSE TownLoop_Break(Tail(towns), baseline_threat, critical_exposures)

\* The town loop of process_live_graph, as a left fold over towns: the state
\* is the pair (baseline_threat, critical_exposures).
RECURSIVE TownLoop(_, _, _)
TownLoop(towns, baseline_threat, critical_exposures) ==
    IF towns = <<>> THEN [baseline_threat |-> baseline_threat,
                          critical_exposures |-> critical_exposures]
    ELSE LET town == Head(towns)
             distance == Get(town, "distance_km", 990)
         IN  IF distance < 50
             THEN TownLoop(Tail(towns), "CRITICAL",
                           Append(critical_exposures, FormatExposure(town)))
             ELSE IF distance < 150 /\ baseline_threat # "CRITICAL"
             THEN TownLoop(Tail(towns), "ELEVATED", critical_exposures)
             ELSE TownLoop(Tail(towns), baseline_threat, critical_exposures)

\* The thresholds themselves escalate.
PhysicsEscalates_AtThreshold(effective_spread_velocity, wind_speed, slope) ==
    effective_spread_velocity >= 1500 \/ (wind_speed >= 30 /\ slope >= 15)

\* effective_spread_velocity > 15.0 or (wind_speed > 30 and slope > 15)
PhysicsEscalates(effective_spread_velocity, wind_speed, slope) ==
    effective_spread_velocity > 1500 \/ (wind_speed > 30 /\ slope > 15)

process_live_graph(live_graph, wind_data, environment_data, infrastructure_data) ==
    LET step == Max(1, Get(live_graph, "step", 1))
        total_burning == Get(live_graph, "total_burning", 0)
        total_burned == Get(live_graph, "total_burned", 0)
        wind_speed == Get(wind_data, "speed", 0)
        slope == Get(environment_data, "slope", 0)
        vegetation == Lower(Get(environment_data, "terrain_vegetation", "unknown"))
        towns == Get(infrastructure_data, "nearby_towns", <<>>)
        base_spread_velocity == RoundDiv(total_burning * 100, step)
        velocity_multiplier ==
            10 + (IF slope > 20 THEN 5 ELSE 0)
               + (IF vegetation \in {"chaparral", "brush", "timber"} THEN 3 ELSE 0)
        effective_spread_velocity ==
            RoundDiv(base_spread_velocity * velocity_multiplier, 10)
        loop == TownLoop(towns, "LOW", <<>>)
        baseline_threat ==
            IF PhysicsEscalates(effective_spread_velocity, wind_speed, slope)
            THEN "CRITICAL" ELSE loop.baseline_threat
    IN  [raw_stats |-> [step |-> step,
                        active_fire_cells |-> total_burning,
                        total_destroyed_cells |-> total_burned],
         computed_physics |->
            [base_spread_velocity |-> base_spread_velocity,
             effective_velocity_multiplier |-> velocity_multiplier,
             effective_spread_velocity |-> effective_spread_velocity,
             deterministic_baseline_threat |-> baseline_threat,
             critical_exposures_identified |-> loop.critical_exposures]]

\* ------------------------------------------------------------------ validator
\* The two violation messages; R1 quotes the risk agent's threat level.
PhysicsViolation(threat_level) == [rule |-> "Physics Violation", got |-> threat_level]
LogicViolation == [rule |-> "Logic Violation", got |-> ""]

\* The names taken from the exposure records: the text before " is ",
\* stripped, kept when non-empty.
ExposureNames(exposures) ==
    SelectSeq([i \in 1..Len(exposures) |->
                  Strip(SplitFirst(exposures[i], <<SP, "is", SP>>))],
              LAMBDA name : name # <<>>)

\* not any(name in risk_data.vulnerable_targets for name in exposure_names)
NoneMentioned(exposure_names, vulnerable_targets) ==
    ~ \E i \in 1..Len(exposure_names) : exposure_names[i] \in vulnerable_targets

\* The level is compared without regard to letter case.
EscalationMissing_CaseBlind(physics, risk_data) ==
    /\ physics.deterministic_baseline_threat = "CRITICAL"
    /\ risk_data.threat_level \notin {"CRITICAL", "critical"}

\* The comparison written the wrong way round: the rule fires on agreement.
EscalationMissing_Inverted(physics, risk_data) ==
    /\ physics.deterministic_baseline_threat = "CRITICAL"
    /\ risk_data.threat_level = "CRITICAL"

\* The condition of the 'must escalate' rule.
EscalationMissing(physics, risk_data) ==
    /\ physics.deterministic_baseline_threat = "CRITICAL"
    /\ risk_data.threat_level # "CRITICAL"

\* A recommendation without confidence is a violation of its own.
validate_agent_reasoning_ReadsRec(processed_graph, risk_data, rec_data) ==
    LET physics == processed_graph.computed_physics
        r1 == IF EscalationMissing(physics, risk_data)
              THEN <<PhysicsViolation(risk_data.threat_level)>> ELSE <<>>
        exposures == physics.critical_exposures_identified
        exposure_names == ExposureNames(exposures)
        r2 == IF /\ exposures # <<>>
                 /\ exposure_names # <<>>
                 /\ NoneMentioned(exposure_names, risk_data.vulnerable_targets)
              THEN <<LogicViolation>> ELSE <<>>
        r3 == IF rec_data.confidence_score = 0
              THEN <<[rule |-> "Confidence Violation", got |-> ""]>> ELSE <<>>
    IN  r1 \o r2 \o r3

validate_agent_reasoning(processed_graph, risk_data, rec_data) ==
    LET physics == processed_graph.computed_physics
        r1 == IF EscalationMissing(physics, risk_data)
              THEN <<PhysicsViolation(risk_data.threat_level)>> ELSE <<>>
        exposures == physics.critical_exposures_identified
        exposure_names == ExposureNames(exposures)
        r2 == IF /\ exposures # <<>>
                 /\ exposure_names # <<>>
                 /\ NoneMentioned(exposure_names, risk_data.vulnerable_targets)
              THEN <<LogicViolation>> ELSE <<>>
    IN  r1 \o r2

\* ------------------------------------------------------------------ data contracts
\* A pydantic model instance is a record tagged with its class; model_dump()
\* gives the dict of its fields.
FireAnalysis(behavior_summary, spread_direction, spread_velocity_assessment) ==
    [model |-> "FireAnalysis",
     behavior_summary |-> behavior_summary,
     spread_direction |-> spread_direction,
     spread_velocity_assessment |-> spread_velocity_assessment]

RiskAnalysis(threat_level, vulnerable_targets) ==
    [model |-> "RiskAnalysis",
     threat_level |-> threat_level,
     vulnerable_targets |-> vulnerable_targets]

NotificationItem(fact) == [model |-> "NotificationItem", fact |-> fact]

AgentNotifications(alerts) == [model |-> "AgentNotifications", alerts |-> alerts]

AgentRecommendation(action, rationale, confidence_score) ==
    [model |-> "AgentRecommendation",
     action |-> action,
     rationale |-> rationale,
     confidence_score |-> confidence_score]

Fields(obj) == DOMAIN obj \ {"model"}

model_dump(obj) ==
    [k \in Fields(obj) |->
        IF k = "alerts"
        THEN [i \in 1..Len(obj[k]) |-> [f \in Fields(obj[k][i]) |-> obj[k][i][f]]]
        ELSE obj[k]]

\* ------------------------------------------------------------------ bounds and inputs
\* The largest number of alerts the notification agent returns (the schema
\* asks for 3 in its description and does not constrain the list's length).
MaxAlerts == 3

Paradise == [name |-> <<"Paradise">>, distance_km |-> 28]
Magalia == [name |-> <<"Magalia">>, distance_km |-> 41]
Chico == [name |-> <<"Chico">>, distance_km |-> 120]

Calm == [live_graph |-> [step |-> 2, total_burning |-> 4, total_burned |-> 1],
         wind_data |-> [speed |-> 10],
         environment_data |-> [slope |-> 10, terrain_vegetation |-> "grass"]]

Extreme == [live_graph |-> [step |-> 2, total_burning |-> 40, total_burned |-> 9],
            wind_data |-> [speed |-> 35],
            environment_data |-> [slope |-> 25, terrain_vegetation |-> "Chaparral"]]

\* The recommendation a caller hands in from the previous tick.
SuppliedRec == [action |-> "Stage engines at Ridge Road",
                rationale |-> "Earlier tick",
                confidence_score |-> 55]

Request(conditions, towns, previous_rec) ==
    [live_graph |-> conditions.live_graph,
     wind_data |-> conditions.wind_data,
     environment_data |-> conditions.environment_data,
     infrastructure_data |-> [nearby_towns |-> towns],
     previous_rec |-> previous_rec]

\* One request per way the baseline comes about: ELEVATED by a town within
\* 15 km, CRITICAL by two towns within 5 km, CRITICAL by the velocity and the
\* wind-slope rules with no town at all.
Requests == {Request(Calm, <<Chico>>, None),
             Request(Calm, <<Paradise, Magalia>>, SuppliedRec),
             Request(Extreme, <<>>, None)}

\* The longest list of nearby towns the physics inputs hold.
MaxTowns == 3

\* Towns on both sides of the 5 km and the 15 km thresholds, at the
\* thresholds, and one whose record has no distance.
Oroville == [name |-> <<"Oroville">>, distance_km |-> 50]
Gridley == [name |-> <<"Gridley">>, distance_km |-> 150]
Redding == [name |-> <<"Redding">>]

PhysicsTowns == {Paradise, Magalia, Oroville, Chico, Gridley, Redding}

TownLists == UNION {[1..n -> PhysicsTowns] : n \in 0..MaxTowns}

\* (step, total_burning): quotients that are exact, that round down, that
\* round up, the quotient 15.0, and steps max(1, step) replaces.
PhysicsFires == {<<2, 4>>, <<2, 30>>, <<2, 31>>, <<0, 7>>, <<0 - 3, 7>>,
                 <<3, 10>>, <<3, 20>>, <<2, 40>>, <<8, 1>>}

\* (wind speed, slope, vegetation) around wind 30, slope 15 and slope 20, with
\* the three fuels in several spellings.
PhysicsWeather == {<<10, 10, "grass">>, <<30, 16, "grass">>, <<31, 15, "grass">>,
                   <<31, 16, "grass">>, <<10, 20, "grass">>, <<10, 21, "grass">>,
                   <<10, 25, "chaparral">>, <<10, 10, "TIMBER">>,
                   <<35, 25, "Chaparral">>, <<10, 10, "Brush">>}

\* Dicts without the keys process_live_graph reads.
NoReadings == [live_graph |-> [total_burned |-> 0],
               wind_data |-> [direction |-> "NE"],
               environment_data |-> [temperature |-> 30]]

PhysicsConditions ==
    {[live_graph |-> [step |-> f[1], total_burning |-> f[2], total_burned |-> 1],
      wind_data |-> [speed |-> w[1]],
      environment_data |-> [slope |-> w[2], terrain_vegetation |-> w[3]]] :
        f \in PhysicsFires, w \in PhysicsWeather} \cup {NoReadings}

PhysicsRequests == {Request(c, towns, None) : c \in PhysicsConditions, towns \in TownLists}

\* Towns under 5 km whose names the exposure record does not give back: a
\* name that holds " is ", a name with whitespace around it, an empty name.
IsleTown == [name |-> <<"Isle", SP, "is", SP, "Vista">>, distance_km |-> 12]
PaddedTown == [name |-> <<SP, "Concow", SP>>, distance_km |-> 33]
BlankTown == [name |-> <<>>, distance_km |-> 20]

ValidatorTownLists == {<<>>, <<Chico>>, <<Paradise>>, <<Paradise, Magalia>>,
                       <<Chico, Magalia, Paradise>>, <<IsleTown>>, <<PaddedTown>>,
                       <<BlankTown>>}

ValidatorRequests ==
    {Request(c, towns, None) : c \in {Calm, Extreme}, towns \in ValidatorTownLists}

\* The names a risk analysis may list, and the levels it may state: the three
\* of the schema's description and a spelling that is not exactly CRITICAL.
TargetNames == {<<"Paradise">>, <<"Magalia">>, IsleTown.name, PaddedTown.name,
                <<"Concow">>, <<"Isle">>}

RiskInputs ==
    {RiskAnalysis(l, t) : l \in {"LOW", "ELEVATED", "CRITICAL", "critical"},
                          t \in SUBSET TargetNames}

RecInputs == {AgentRecommendation("Evacuate Paradise", "Fire within 5km", 90),
              AgentRecommendation("Hold the ridge line", "Wind shift due", 40),
              AgentRecommendation("Monitor", "No threat", 0)}

\* What the external reasoning calls can answer.
Agents == {"fire", "risk", "notif", "rec"}
Stage1 == {"fire", "risk"}
Stage2 == {"notif", "rec"}

\* The risk agent's answers: a threat level that contradicts a CRITICAL
\* baseline or agrees with it, and no, one or both of the towns as targets.
AgentThreatLevels == {"LOW", "CRITICAL"}
AgentTargets == {{}, {<<"Paradise">>}, {<<"Paradise">>, <<"Magalia">>}}

Facts == <<"Fire approaching Paradise", "Wind gusts 35mph", "Slope 25 percent", "Fuel is dry">>

Outputs(agent) ==
    CASE agent = "fire" -> {FireAnalysis("Wind-driven run", "NE", "multiplier applied")}
      [] agent = "risk" -> {RiskAnalysis(l, t) : l \in AgentThreatLevels, t \in AgentTargets}
      [] agent = "notif" ->
            {AgentNotifications([i \in 1..n |-> NotificationItem(Facts[((i - 1) % Len(Facts)) + 1])]) :
                n \in 1..MaxAlerts}
      [] agent = "rec" -> {AgentRecommendation("Evacuate Paradise", "Fire within 5km", 90),
                            AgentRecommendation("Hold the ridge line", "Wind shift due", 40)}

\* The exceptions the external call raises, each with its str(e).
Exception(error_str) == [error_str |-> error_str]

Errors == {Exception("Error code: 429"), Exception("Connection reset")}

\* "rate_limit" in error_str.lower() or "429" in error_str
IsRateLimit(e) == e.error_str \in {"rate_limit_exceeded", "Error code: 429"}

\* ------------------------------------------------------------------ state
VARIABLES
    request,               \* the arguments of this execute_agent_graph call
    pc,                    \* where the orchestration coroutine is suspended
    status_tracker,        \* the caller's status dict, written in place
    processed_graph,
    attempts,
    validator_feedback,
    current_previous_rec,
    fire_result, risk_result, notif_result, rec_result,
    errors,                \* the validator's list of the last validated attempt
    calls,                 \* one _call_openai_with_retry coroutine per agent
    gather_exc,            \* the exception set on the pending asyncio.gather
    result,                \* the dict execute_agent_graph returned
    raised,                \* the exception execute_agent_graph raised
    heap,                  \* the status dicts the callers have created, by address
    sessions,              \* the execute_agent_graph call of each concurrent caller
    invocations,           \* history: the external invocations made, per agent
    connection,            \* the /ws handler of src/backend/main.py and its polling task
    standalone,            \* the execute_agent_graph call of src/orchestrator.py
    connected_clients,     \* the module-level list of src/firemind/backend/main.py
    broadcast_call,        \* the frame of the running broadcast coroutine
    endpoints              \* the websocket_endpoint coroutine of each client

vars == <<connection, standalone, connected_clients, broadcast_call, endpoints,
          invocations, heap, sessions, request, pc, status_tracker, processed_graph, attempts, validator_feedback,
          current_previous_rec, fire_result, risk_result, notif_result, rec_result,
          errors, calls, gather_exc, result, raised>>

loop_vars == <<attempts, validator_feedback, current_previous_rec>>
stage_results == <<fire_result, risk_result, notif_result, rec_result>>

\* The status dict the callers create for each call.
NewStatusTracker == [graph_physics |-> "idle", level_1_agents |-> "idle",
                     level_2_agents |-> "idle", validation |-> "idle"]

orchestration_vars == <<request, pc, status_tracker, processed_graph, attempts,
                        validator_feedback, current_previous_rec, fire_result,
                        risk_result, notif_result, rec_result, errors, calls,
                        gather_exc, result, raised>>

\* The variables of the push channel of src/firemind/backend/main.py.
firemind_vars == <<connected_clients, broadcast_call, endpoints>>

\* The coroutines that call execute_agent_graph and may run at the same time
\* on one event loop.
Callers == {"analyze_fire", "websocket_endpoint", "process_timestamped_data"}

\* A caller that has not yet made its call: no status dict, no frame.
IdleSession == [pc |-> "idle", status_tracker |-> 0, attempts |-> 0,
                validator_feedback |-> <<>>, current_previous_rec |-> None,
                risk_result |-> None, rec_result |-> None, result |-> None]

\* The dict literal {}.
EmptyDict == [k \in {} |-> k]

\* The frame of execute_agent_graph of src/orchestrator.py before its call,
\* with the status dict its caller passes.
IdleStandalone == [pc |-> "start", status_tracker |-> NewStatusTracker,
                   processed_graph |-> None, attempts |-> 0,
                   validator_feedback |-> <<>>, current_previous_rec |-> None,
                   fire_result |-> None, risk_result |-> None,
                   notif_result |-> None, rec_result |-> None,
                   errors |-> <<>>, result |-> None]
\* The WebSocket objects of src/firemind/backend/main.py, one per connection.
Clients == {"ws1", "ws2", "ws3"}

\* No broadcast is running: simulation_loop is in its sleep.
IdleBroadcast == [pc |-> "idle", i |-> 0, ws |-> None, disconnected |-> <<>>]

\* The /ws handler of src/backend/main.py suspended in receive_json, before a
\* polling task exists; sent is what the client has been sent so far.
IdleConnection == [handler |-> "receiving", poller |-> "not_created",
                   last_status |-> EmptyDict, sent |-> <<>>]

\* ------------------------------------------------------------------ rate-limit wrapper
\* One event of a wrapped call; t is the length of a sleep in seconds.
Ev(kind, t) == [ev |-> kind, t |-> t]

RECURSIVE Pow2(_)
Pow2(n) == IF n = 0 THEN 1 ELSE 2 * Pow2(n - 1)

\* A coroutine of _call_openai_with_retry that has not been created.
IdleCall == [pc |-> "idle", attempt |-> 0, e |-> None, value |-> None, exc |-> None,
             args |-> None, log |-> <<>>]

\* for attempt in range(RATE_LIMIT_RETRY_ATTEMPTS): the loop is entered with
\* attempt = 0 and the first `await func()` is in flight.
StartCall(args) == [pc |-> "calling", attempt |-> 0, e |-> None, value |-> None,
                    exc |-> None, args |-> args, log |-> <<Ev("invoke", 0)>>]

\* return await func(*args, **kwargs)
OnResult(call, v) ==
    [call EXCEPT !.pc = "returned", !.value = v, !.log = Append(@, Ev("ok", 0))]

\* The last attempt is not told apart: the third rate-limit failure sleeps
\* too and the loop runs out.
OnException_NoLastAttempt(call, e) ==
    IF IsRateLimit(e)
    THEN IF call.attempt < RATE_LIMIT_RETRY_ATTEMPTS
         THEN LET wait_time == RATE_LIMIT_BACKOFF_BASE * Pow2(call.attempt)
              IN  [call EXCEPT !.pc = "sleeping", !.e = e,
                               !.log = @ \o <<Ev("rate_limit", 0), Ev("sleep", wait_time)>>]
         ELSE [call EXCEPT !.pc = "raised", !.e = e, !.exc = e,
                           !.log = Append(@, Ev("rate_limit", 0))]
    ELSE [call EXCEPT !.pc = "raised", !.e = e, !.exc = e,
                      !.log = Append(@, Ev("fatal", 0))]

\* Every exception is backed off and retried, whatever its text.
OnException_RetriesAll(call, e) ==
    IF call.attempt < RATE_LIMIT_RETRY_ATTEMPTS - 1
    THEN LET wait_time == RATE_LIMIT_BACKOFF_BASE * Pow2(call.attempt)
         IN  [call EXCEPT !.pc = "sleeping", !.e = e,
                          !.log = @ \o <<Ev("rate_limit", 0), Ev("sleep", wait_time)>>]
    ELSE [call EXCEPT !.pc = "raised", !.e = e, !.exc = e,
                      !.log = Append(@, Ev("rate_limit", 0))]

\* The delay is not doubled: every backoff lasts the base delay.
OnException_FixedDelay(call, e) ==
    IF IsRateLimit(e)
    THEN IF call.attempt < RATE_LIMIT_RETRY_ATTEMPTS - 1
         THEN LET wait_time == RATE_LIMIT_BACKOFF_BASE
              IN  [call EXCEPT !.pc = "sleeping", !.e = e,
                               !.log = @ \o <<Ev("rate_limit", 0), Ev("sleep", wait_time)>>]
         ELSE [call EXCEPT !.pc = "raised", !.e = e, !.exc = e,
                           !.log = Append(@, Ev("rate_limit", 0))]
    ELSE [call EXCEPT !.pc = "raised", !.e = e, !.exc = e,
                      !.log = Append(@, Ev("fatal", 0))]

\* except Exception as e: ... (a bare `raise` re-raises e)
OnException(call, e) ==
    IF IsRateLimit(e)
    THEN IF call.attempt < RATE_LIMIT_RETRY_ATTEMPTS - 1
         THEN LET wait_time == RATE_LIMIT_BACKOFF_BASE * Pow2(call.attempt)
              IN  [call EXCEPT !.pc = "sleeping", !.e = e,
                               !.log = @ \o <<Ev("rate_limit", 0), Ev("sleep", wait_time)>>]
         ELSE [call EXCEPT !.pc = "raised", !.e = e, !.exc = e,
                           !.log = Append(@, Ev("rate_limit", 0))]
    ELSE [call EXCEPT !.pc = "raised", !.e = e, !.exc = e,
                      !.log = Append(@, Ev("fatal", 0))]

\* The first retry is not counted: the attempt number advances from the
\* second backoff on.
OnWake_FirstRetryFree(call) ==
    IF call.attempt + 1 < RATE_LIMIT_RETRY_ATTEMPTS
    THEN [call EXCEPT !.pc = "calling",
                      !.attempt = IF Len(call.log) = 3 THEN @ ELSE @ + 1,
                      !.e = None,
                      !.log = Append(@, Ev("invoke", 0))]
    ELSE [call EXCEPT !.pc = "returned", !.attempt = @ + 1, !.e = None, !.value = None,
                      !.log = Append(@, Ev("return_none", 0))]

\* asyncio.sleep(wait_time) is over: the next iteration of the for loop, or
\* the `return None` after it.
OnWake(call) ==
    IF call.attempt + 1 < RATE_LIMIT_RETRY_ATTEMPTS
    THEN [call EXCEPT !.pc = "calling", !.attempt = @ + 1, !.e = None,
                      !.log = Append(@, Ev("invoke", 0))]
    ELSE [call EXCEPT !.pc = "returned", !.attempt = @ + 1, !.e = None, !.value = None,
                      !.log = Append(@, Ev("return_none", 0))]

\* The stage whose gather the orchestration coroutine is awaiting.
Awaited == IF pc = "stage1" THEN Stage1 ELSE IF pc = "stage2" THEN Stage2 ELSE {}

\* The external call of agent c answers with a schema-valid value.
AgentReturns(c) ==
    /\ calls[c].pc = "calling"
    /\ \E v \in Outputs(c) : calls' = [calls EXCEPT ![c] = OnResult(@, v)]
    /\ UNCHANGED <<heap, sessions, request, pc, status_tracker, processed_graph, loop_vars,
                   stage_results, errors, gather_exc, result, raised>>

\* The retry is made around the stage instead of the single call: a
\* rate-limited call that backs off has the calls of its stage started again.
AgentFails_RestartsStage(c) ==
    /\ calls[c].pc = "calling"
    /\ \E e \in Errors :
        LET after == OnException(calls[c], e)
        IN  /\ calls' = [d \in Agents |->
                    IF d = c THEN after
                    ELSE IF after.pc = "sleeping" /\ d \in Awaited /\ calls[d].pc # "idle"
                    THEN StartCall(calls[d].args)
                    ELSE calls[d]]
            /\ gather_exc' = IF after.pc = "raised" /\ c \in Awaited /\ gather_exc = None
                             THEN after.exc ELSE gather_exc
    /\ UNCHANGED <<heap, sessions, request, pc, status_tracker, processed_graph, loop_vars,
                   stage_results, errors, result, raised>>

\* The external call of agent c raises.  A child that ends with an exception
\* sets it on the gather it belongs to, if that gather is still pending.
AgentFails(c) ==
    /\ calls[c].pc = "calling"
    /\ \E e \in Errors :
        LET after == OnException(calls[c], e)
        IN  /\ calls' = [calls EXCEPT ![c] = after]
            /\ gather_exc' = IF after.pc = "raised" /\ c \in Awaited /\ gather_exc = None
                             THEN after.exc ELSE gather_exc
    /\ UNCHANGED <<heap, sessions, request, pc, status_tracker, processed_graph, loop_vars,
                   stage_results, errors, result, raised>>

\* The backoff sleep of agent c's wrapper is over.
BackoffElapsed(c) ==
    /\ calls[c].pc = "sleeping"
    /\ calls' = [calls EXCEPT ![c] = OnWake(@)]
    /\ UNCHANGED <<heap, sessions, request, pc, status_tracker, processed_graph, loop_vars,
                   stage_results, errors, gather_exc, result, raised>>

\* ------------------------------------------------------------------ orchestration loop
\* " | ".join(errors)
RECURSIVE Join(_)
Join(errs) ==
    IF Len(errs) = 0 THEN <<>>
    ELSE IF Len(errs) = 1 THEN errs
    ELSE <<Head(errs), [rule |-> " | ", got |-> ""]>> \o Join(Tail(errs))

\* The violations of the rejected attempt are added to the earlier feedback.
NextFeedback_Accumulates(feedback, errs) ==
    IF feedback = <<>> THEN Join(errs)
    ELSE feedback \o <<[rule |-> " | ", got |-> ""]>> \o Join(errs)

\* validator_feedback = " | ".join(errors)
NextFeedback(feedback, errs) == Join(errs)

\* The fallback without its system alert.
FallbackPayload_NoAlert(graph) ==
    [notifications |-> <<>>,
     recommendation |-> [consideration |-> "Manual Override Required",
                         rationale |-> "Physics constraints violated.",
                         confidence_score |-> 0],
     computed_physics |-> graph.computed_physics]

\* The dict returned when the loop ends without an accepted attempt.
FallbackPayload(graph) ==
    [notifications |-> <<[headline |-> "System Alert",
                          explanation |-> "Agent validation failed. Reverting to manual command."]>>,
     recommendation |-> [consideration |-> "Manual Override Required",
                         rationale |-> "Physics constraints violated.",
                         confidence_score |-> 0],
     computed_physics |-> graph.computed_physics]

\* The accepted attempt returned without the physics.
ValidatedPayload_NoPhysics(graph, notif, rec) ==
    [notifications |-> model_dump(notif).alerts,
     recommendation |-> model_dump(rec)]

\* Only the first alert of the accepted attempt is returned.
ValidatedPayload_FirstAlert(graph, notif, rec) ==
    [notifications |-> SubSeq(model_dump(notif).alerts, 1, 1),
     recommendation |-> model_dump(rec),
     computed_physics |-> graph.computed_physics]

\* After a rejection the recommendation returned is the rejected one.
ValidatedPayload_StaleRec(graph, notif, rec) ==
    [notifications |-> model_dump(notif).alerts,
     recommendation |-> IF attempts > 0 THEN current_previous_rec ELSE model_dump(rec),
     computed_physics |-> graph.computed_physics]

\* The dict returned for an accepted attempt.
ValidatedPayload(graph, notif, rec) ==
    [notifications |-> model_dump(notif).alerts,
     recommendation |-> model_dump(rec),
     computed_physics |-> graph.computed_physics]

\* A rejection leaves the two agent stages as they were.
RejectedTracker_StagesKept(tracker) == [tracker EXCEPT !.validation = "error"]

\* The three tracker writes of a rejection.
RejectedTracker(tracker) ==
    [tracker EXCEPT !.validation = "error",
                    !.level_1_agents = "idle",
                    !.level_2_agents = "idle"]

\* The loop condition off by one.
LoopCondition_OffByOne(att) == att <= MAX_RETRIES + 1

\* attempts < (MAX_RETRIES + 1)
LoopCondition(att) == att < MAX_RETRIES + 1

\* `while attempts < (MAX_RETRIES + 1)`, evaluated with the loop variables att,
\* fb and prev and the tracker as written so far: either the next attempt
\* starts (up to the gather of stage 1), or the loop is left for the fallback.
WhileHead(graph, att, fb, prev, tracker) ==
    IF LoopCondition(att)
    THEN /\ status_tracker' = [tracker EXCEPT !.level_1_agents = "running"]
         /\ calls' = [calls EXCEPT
                 !["fire"] = StartCall([processed_graph |-> graph]),
                 !["risk"] = StartCall([processed_graph |-> graph, feedback |-> fb])]
         /\ gather_exc' = None
         /\ pc' = "stage1"
         /\ result' = None
    ELSE /\ status_tracker' = [tracker EXCEPT !.validation = "error"]
         /\ result' = FallbackPayload(graph)
         /\ pc' = "returned"
         /\ UNCHANGED <<calls, gather_exc>>

\* The gather is resumed by the first child that returns.
GatherDone_Any(stage) == \E c \in stage : calls[c].pc = "returned"

\* await asyncio.gather(...) yields its results when every child has returned.
GatherDone(stage) == \A c \in stage : calls[c].pc = "returned"

\* status_tracker["graph_physics"] = "running"; await asyncio.sleep(0.5)
Begin ==
    /\ pc = "start"
    /\ status_tracker' = [status_tracker EXCEPT !.graph_physics = "running"]
    /\ pc' = "physics"
    /\ UNCHANGED <<heap, sessions, request, processed_graph, loop_vars, stage_results, errors, calls,
                   gather_exc, result, raised>>

\* process_live_graph, the loop variables, and the first pass of the loop head.
ComputePhysics ==
    /\ pc = "physics"
    /\ LET graph == process_live_graph(request.live_graph, request.wind_data,
                                       request.environment_data,
                                       request.infrastructure_data)
       IN  /\ processed_graph' = graph
           /\ attempts' = 0
           /\ validator_feedback' = <<>>
           /\ current_previous_rec' = request.previous_rec
           /\ WhileHead(graph, 0, <<>>, request.previous_rec,
                        [status_tracker EXCEPT !.graph_physics = "complete"])
    /\ UNCHANGED <<heap, sessions, request, stage_results, errors, raised>>

\* Every attempt hands the recommendation agent the caller's previous_rec.
Stage1Join_OriginalPrev ==
    /\ pc = "stage1"
    /\ GatherDone(Stage1)
    /\ fire_result' = calls["fire"].value
    /\ risk_result' = calls["risk"].value
    /\ status_tracker' = [status_tracker EXCEPT !.level_1_agents = "complete",
                                                !.level_2_agents = "running"]
    /\ calls' = [calls EXCEPT
            !["fire"] = IdleCall,
            !["risk"] = IdleCall,
            !["notif"] = StartCall([fire_data |-> calls["fire"].value,
                                    risk_data |-> calls["risk"].value]),
            !["rec"] = StartCall([fire_data |-> calls["fire"].value,
                                  risk_data |-> calls["risk"].value,
                                  previous_rec |-> request.previous_rec,
                                  feedback |-> validator_feedback])]
    /\ pc' = "stage2"
    /\ UNCHANGED <<heap, sessions, request, processed_graph, loop_vars, notif_result, rec_result, errors,
                   gather_exc, result, raised>>

\* The gather of stage 1 has both results: stage 2 is started.
Stage1Join ==
    /\ pc = "stage1"
    /\ GatherDone(Stage1)
    /\ fire_result' = calls["fire"].value
    /\ risk_result' = calls["risk"].value
    /\ status_tracker' = [status_tracker EXCEPT !.level_1_agents = "complete",
                                                !.level_2_agents = "running"]
    /\ calls' = [calls EXCEPT
            !["fire"] = IdleCall,
            !["risk"] = IdleCall,
            !["notif"] = StartCall([fire_data |-> calls["fire"].value,
                                    risk_data |-> calls["risk"].value]),
            !["rec"] = StartCall([fire_data |-> calls["fire"].value,
                                  risk_data |-> calls["risk"].value,
                                  previous_rec |-> current_previous_rec,
                                  feedback |-> validator_feedback])]
    /\ pc' = "stage2"
    /\ UNCHANGED <<heap, sessions, request, processed_graph, loop_vars, notif_result, rec_result, errors,
                   gather_exc, result, raised>>

\* The gather of stage 2 has both results: validation is marked running and
\* the coroutine sleeps before it validates.
Stage2Join ==
    /\ pc = "stage2"
    /\ GatherDone(Stage2)
    /\ notif_result' = calls["notif"].value
    /\ rec_result' = calls["rec"].value
    /\ status_tracker' = [status_tracker EXCEPT !.level_2_agents = "complete",
                                                !.validation = "running"]
    /\ calls' = [calls EXCEPT !["notif"] = IdleCall, !["rec"] = IdleCall]
    /\ pc' = "validation"
    /\ UNCHANGED <<heap, sessions, request, processed_graph, loop_vars, fire_result, risk_result, errors,
                   gather_exc, result, raised>>

\* The exception of the gather is caught and the fallback returned instead.
StageRaise_ReturnsFallback ==
    /\ pc \in {"stage1", "stage2"}
    /\ gather_exc # None
    /\ result' = FallbackPayload(processed_graph)
    /\ status_tracker' = [status_tracker EXCEPT !.validation = "error"]
    /\ pc' = "returned"
    /\ UNCHANGED <<heap, sessions, request, processed_graph, loop_vars, stage_results,
                   errors, calls, gather_exc, raised>>

\* The failing gather cancels the children that still run.
StageRaise_CancelsSiblings ==
    /\ pc \in {"stage1", "stage2"}
    /\ gather_exc # None
    /\ raised' = gather_exc
    /\ pc' = "raised"
    /\ calls' = [c \in Agents |->
            IF calls[c].pc \in {"calling", "sleeping"} THEN IdleCall ELSE calls[c]]
    /\ UNCHANGED <<heap, sessions, request, status_tracker, processed_graph, loop_vars, stage_results,
                   errors, gather_exc, result>>

\* The pending gather carries an exception: it propagates out of
\* execute_agent_graph; the other child keeps running.
StageRaise ==
    /\ pc \in {"stage1", "stage2"}
    /\ gather_exc # None
    /\ raised' = gather_exc
    /\ pc' = "raised"
    /\ UNCHANGED <<heap, sessions, request, status_tracker, processed_graph, loop_vars, stage_results,
                   errors, calls, gather_exc, result>>

\* A rejection writes the risk agent's level into the graph before the retry.
Validate_OverwritesThreat ==
    /\ pc = "validation"
    /\ LET errs == validate_agent_reasoning(processed_graph, risk_result, rec_result)
           graph == [processed_graph EXCEPT
                        !.computed_physics.deterministic_baseline_threat =
                            risk_result.threat_level]
       IN  /\ errors' = errs
           /\ IF errs = <<>>
              THEN /\ status_tracker' = [status_tracker EXCEPT !.validation = "complete"]
                   /\ result' = ValidatedPayload(processed_graph, notif_result, rec_result)
                   /\ pc' = "returned"
                   /\ UNCHANGED <<processed_graph, loop_vars, calls, gather_exc>>
              ELSE /\ processed_graph' = graph
                   /\ validator_feedback' = NextFeedback(validator_feedback, errs)
                   /\ current_previous_rec' = model_dump(rec_result)
                   /\ attempts' = attempts + 1
                   /\ WhileHead(graph, attempts + 1,
                                NextFeedback(validator_feedback, errs),
                                model_dump(rec_result),
                                RejectedTracker(status_tracker))
    /\ UNCHANGED <<heap, sessions, request, stage_results, raised>>

\* validate_agent_reasoning and what follows it: the return of the accepted
\* attempt, or the rejection and the next pass of the loop head.
Validate ==
    /\ pc = "validation"
    /\ LET errs == validate_agent_reasoning(processed_graph, risk_result, rec_result)
       IN  /\ errors' = errs
           /\ IF errs = <<>>
              THEN /\ status_tracker' = [status_tracker EXCEPT !.validation = "complete"]
                   /\ result' = ValidatedPayload(processed_graph, notif_result, rec_result)
                   /\ pc' = "returned"
                   /\ UNCHANGED <<loop_vars, calls, gather_exc>>
              ELSE /\ validator_feedback' = NextFeedback(validator_feedback, errs)
                   /\ current_previous_rec' = model_dump(rec_result)
                   /\ attempts' = attempts + 1
                   /\ WhileHead(processed_graph, attempts + 1,
                                NextFeedback(validator_feedback, errs),
                                model_dump(rec_result),
                                RejectedTracker(status_tracker))
    /\ UNCHANGED <<heap, sessions, request, processed_graph, stage_results, raised>>

\* ------------------------------------------------------------------ specification
Init ==
    /\ request \in Requests
    /\ pc = "start"
    /\ status_tracker = NewStatusTracker
    /\ processed_graph = None
    /\ attempts = 0
    /\ validator_feedback = <<>>
    /\ current_previous_rec = None
    /\ fire_result = None
    /\ risk_result = None
    /\ notif_result = None
    /\ rec_result = None
    /\ errors = <<>>
    /\ calls = [c \in Agents |-> IdleCall]
    /\ gather_exc = None
    /\ result = None
    /\ raised = None
    /\ heap = <<>>
    /\ sessions = [c \in Callers |-> IdleSession]
    /\ invocations = [c \in Agents |-> 0]
    /\ connection = IdleConnection
    /\ standalone = IdleStandalone
    /\ connected_clients = <<>>
    /\ broadcast_call = IdleBroadcast
    /\ endpoints = [w \in Clients |-> "unconnected"]

\* No call has been made yet.
NothingRun ==
    /\ pc = "start"
    /\ status_tracker = NewStatusTracker
    /\ processed_graph = None
    /\ attempts = 0
    /\ validator_feedback = <<>>
    /\ current_previous_rec = None
    /\ fire_result = None
    /\ notif_result = None
    /\ errors = <<>>
    /\ calls = [c \in Agents |-> IdleCall]
    /\ gather_exc = None
    /\ result = None
    /\ raised = None
    /\ heap = <<>>
    /\ sessions = [c \in Callers |-> IdleSession]
    /\ invocations = [c \in Agents |-> 0]
    /\ connection = IdleConnection
    /\ standalone = IdleStandalone
    /\ connected_clients = <<>>
    /\ broadcast_call = IdleBroadcast
    /\ endpoints = [w \in Clients |-> "unconnected"]

\* The history of invocations is kept only under CountingSpec.
Next ==
    \/ Begin /\ UNCHANGED <<invocations, connection, standalone, firemind_vars>>
    \/ ComputePhysics /\ UNCHANGED <<invocations, connection, standalone, firemind_vars>>
    \/ Stage1Join /\ UNCHANGED <<invocations, connection, standalone, firemind_vars>>
    \/ Stage2Join /\ UNCHANGED <<invocations, connection, standalone, firemind_vars>>
    \/ StageRaise /\ UNCHANGED <<invocations, connection, standalone, firemind_vars>>
    \/ Validate /\ UNCHANGED <<invocations, connection, standalone, firemind_vars>>
    \/ \E c \in Agents : AgentReturns(c) /\ UNCHANGED <<invocations, connection, standalone, firemind_vars>>
    \/ \E c \in Agents : AgentFails(c) /\ UNCHANGED <<invocations, connection, standalone, firemind_vars>>
    \/ \E c \in Agents : BackoffElapsed(c) /\ UNCHANGED <<invocations, connection, standalone, firemind_vars>>

Spec == Init /\ [][Next]_vars

\* Every suspended coroutine is resumed: the event loop runs each ready
\* callback, every external call answers and every sleep ends.
FairSpec == Spec /\ WF_vars(Next)

\* ------------------------------------------------------------------ the translator alone
\* process_live_graph applied to the inputs of the request.
TranslateGraph ==
    /\ pc = "start"
    /\ processed_graph' = process_live_graph(request.live_graph, request.wind_data,
                                              request.environment_data,
                                              request.infrastructure_data)
    /\ pc' = "translated"
    /\ UNCHANGED <<connection, standalone, firemind_vars,
                   invocations, heap, sessions, request, status_tracker, loop_vars, stage_results,
                   errors, calls, gather_exc, result, raised>>

PhysicsInit ==
    /\ request \in PhysicsRequests
    /\ risk_result = None
    /\ rec_result = None
    /\ NothingRun

PhysicsSpec == PhysicsInit /\ [][TranslateGraph]_vars

\* ------------------------------------------------------------------ the validator alone
\* validate_agent_reasoning applied to the translated graph and to a risk
\* analysis and a recommendation as the agents may return them.
CheckReasoning ==
    /\ pc = "translated"
    /\ errors' = validate_agent_reasoning(processed_graph, risk_result, rec_result)
    /\ pc' = "checked"
    /\ UNCHANGED <<connection, standalone, firemind_vars,
                   invocations, heap, sessions, request, status_tracker, processed_graph, loop_vars,
                   stage_results, calls, gather_exc, result, raised>>

ValidatorInit ==
    /\ request \in ValidatorRequests
    /\ risk_result \in RiskInputs
    /\ rec_result \in RecInputs
    /\ NothingRun

ValidatorNext ==
    \/ TranslateGraph
    \/ CheckReasoning

ValidatorSpec == ValidatorInit /\ [][ValidatorNext]_vars

\* ------------------------------------------------------------------ concurrent callers
\* Several calls of execute_agent_graph on one event loop.  Each call is taken
\* in the segments between its awaits, a stage being one segment that ends
\* with the results of its gather or with its exception; the status dict of a
\* call lives on the heap and the call holds its address.

\* What each caller passes: the same fire, and the previous recommendation
\* the notification manager keeps from the tick before.
SessionRequest(c) ==
    Request(Calm, <<Paradise, Magalia>>,
            IF c = "process_timestamped_data" THEN SuppliedRec ELSE None)

SessionGraph(c) ==
    process_live_graph(SessionRequest(c).live_graph, SessionRequest(c).wind_data,
                       SessionRequest(c).environment_data,
                       SessionRequest(c).infrastructure_data)

\* The risk answers of a session: one the validator rejects, one it accepts.
SessionRisks == {RiskAnalysis("LOW", {}),
                 RiskAnalysis("CRITICAL", {<<"Paradise">>, <<"Magalia">>})}

SessionRec == AgentRecommendation("Evacuate Paradise", "Fire within 5km", 90)

SessionAlerts == AgentNotifications(<<NotificationItem(Facts[1])>>)

\* Every call writes to one status dict kept at module level.
CallExecute_SharedTracker(c) ==
    /\ sessions[c].pc = "idle"
    /\ heap' = IF heap = <<>>
               THEN <<[NewStatusTracker EXCEPT !.graph_physics = "running"]>>
               ELSE [heap EXCEPT ![1].graph_physics = "running"]
    /\ sessions' = [sessions EXCEPT ![c].pc = "physics", ![c].status_tracker = 1]
    /\ UNCHANGED <<invocations, orchestration_vars>>

\* The caller creates its status dict and calls execute_agent_graph, which
\* runs to its first await.
CallExecute(c) ==
    /\ sessions[c].pc = "idle"
    /\ heap' = Append(heap, [NewStatusTracker EXCEPT !.graph_physics = "running"])
    /\ sessions' = [sessions EXCEPT ![c].pc = "physics",
                                    ![c].status_tracker = Len(heap) + 1]
    /\ UNCHANGED <<invocations, orchestration_vars>>

\* The pass of the loop head of session c with the locals att, fb and prev
\* and the status dict tracker.
SessionWhileHead(c, att, fb, prev, tracker) ==
    LET a == sessions[c].status_tracker
        frame == [sessions[c] EXCEPT !.attempts = att, !.validator_feedback = fb,
                                     !.current_previous_rec = prev]
    IN  IF LoopCondition(att)
        THEN /\ heap' = [heap EXCEPT ![a] = [tracker EXCEPT !.level_1_agents = "running"]]
             /\ sessions' = [sessions EXCEPT ![c] = [frame EXCEPT !.pc = "stage1"]]
        ELSE /\ heap' = [heap EXCEPT ![a] = [tracker EXCEPT !.validation = "error"]]
             /\ sessions' = [sessions EXCEPT ![c] =
                    [frame EXCEPT !.pc = "returned",
                                  !.result = FallbackPayload(SessionGraph(c))]]

SessionPhysics(c) ==
    /\ sessions[c].pc = "physics"
    /\ SessionWhileHead(c, 0, <<>>, SessionRequest(c).previous_rec,
                        [heap[sessions[c].status_tracker] EXCEPT
                            !.graph_physics = "complete"])
    /\ UNCHANGED <<invocations, orchestration_vars>>

SessionStage1(c) ==
    /\ sessions[c].pc = "stage1"
    /\ \E risk \in SessionRisks :
            sessions' = [sessions EXCEPT ![c].pc = "stage2", ![c].risk_result = risk]
    /\ heap' = [heap EXCEPT ![sessions[c].status_tracker] =
                    [@ EXCEPT !.level_1_agents = "complete",
                              !.level_2_agents = "running"]]
    /\ UNCHANGED <<invocations, orchestration_vars>>

SessionStage2(c) ==
    /\ sessions[c].pc = "stage2"
    /\ sessions' = [sessions EXCEPT ![c].pc = "validation", ![c].rec_result = SessionRec]
    /\ heap' = [heap EXCEPT ![sessions[c].status_tracker] =
                    [@ EXCEPT !.level_2_agents = "complete",
                              !.validation = "running"]]
    /\ UNCHANGED <<invocations, orchestration_vars>>

\* A gather of session c raises the exception of one of its agent calls.
SessionStageRaise(c) ==
    /\ sessions[c].pc \in {"stage1", "stage2"}
    /\ sessions' = [sessions EXCEPT ![c].pc = "raised"]
    /\ UNCHANGED <<invocations, heap, orchestration_vars>>

SessionValidate(c) ==
    /\ sessions[c].pc = "validation"
    /\ LET s == sessions[c]
           a == s.status_tracker
           errs == validate_agent_reasoning(SessionGraph(c), s.risk_result, s.rec_result)
       IN  IF errs = <<>>
           THEN /\ heap' = [heap EXCEPT ![a].validation = "complete"]
                /\ sessions' = [sessions EXCEPT
                        ![c].pc = "returned",
                        ![c].result = ValidatedPayload(SessionGraph(c), SessionAlerts,
                                                       s.rec_result)]
           ELSE SessionWhileHead(c, s.attempts + 1,
                                 NextFeedback(s.validator_feedback, errs),
                                 model_dump(s.rec_result), RejectedTracker(heap[a]))
    /\ UNCHANGED <<invocations, orchestration_vars>>

ConcurrentNext ==
    \/ \E c \in Callers : CallExecute(c) /\ UNCHANGED <<connection, standalone, firemind_vars>>
    \/ \E c \in Callers : SessionPhysics(c) /\ UNCHANGED <<connection, standalone, firemind_vars>>
    \/ \E c \in Callers : SessionStage1(c) /\ UNCHANGED <<connection, standalone, firemind_vars>>
    \/ \E c \in Callers : SessionStage2(c) /\ UNCHANGED <<connection, standalone, firemind_vars>>
    \/ \E c \in Callers : SessionStageRaise(c) /\ UNCHANGED <<connection, standalone, firemind_vars>>
    \/ \E c \in Callers : SessionValidate(c) /\ UNCHANGED <<connection, standalone, firemind_vars>>

\* The variables of the single call stay as they start.
ConcurrentInit == Init /\ request = SessionRequest("process_timestamped_data")

ConcurrentSpec == ConcurrentInit /\ [][ConcurrentNext]_vars

\* ------------------------------------------------------------------ the /ws handler
\* websocket_endpoint of src/backend/main.py serving one request of a client
\* that stays connected: the handler, the execute_agent_graph call it awaits
\* and the task send_status_updates it creates run on one event loop, each
\* in the segments between its awaits.
Ws == "websocket_endpoint"

StatusUpdate(status) == [type |-> "status_update", status |-> status]
AnalysisComplete(data) == [type |-> "analysis_complete", data |-> data]

\* The request is received and the history summary fetched; the handler
\* creates the status dict and the polling task and calls
\* execute_agent_graph, which runs to its first await.
Receive ==
    /\ connection.handler = "receiving"
    /\ CallExecute(Ws)
    /\ connection' = [connection EXCEPT !.handler = "orchestrating",
                                        !.poller = "created"]

\* The top of the polling loop: a changed status dict is copied and the copy
\* handed to send_json, an unchanged one leads straight to the sleep.
LoopTop(conn) ==
    IF heap[sessions[Ws].status_tracker] # conn.last_status
    THEN [conn EXCEPT !.poller = "sending",
                      !.sent = Append(@, StatusUpdate(heap[sessions[Ws].status_tracker]))]
    ELSE [conn EXCEPT !.poller = "sleeping"]

\* The first run of the task: last_status = {} and the first pass of the loop.
PollerStarts ==
    /\ connection.poller = "created"
    /\ connection' = LoopTop([connection EXCEPT !.last_status = EmptyDict])
    /\ UNCHANGED <<heap, sessions>>

\* send_json completes: last_status takes a copy of the dict as it is now,
\* and the task sleeps.
SendCompletes ==
    /\ connection.poller = "sending"
    /\ connection' = [connection EXCEPT
            !.poller = "sleeping",
            !.last_status = heap[sessions[Ws].status_tracker]]
    /\ UNCHANGED <<heap, sessions>>

\* asyncio.sleep(0.1) ends: the loop is left when validation reads 'complete'
\* or 'error', else it goes round.
PollerWakes ==
    /\ connection.poller = "sleeping"
    /\ connection' =
            IF heap[sessions[Ws].status_tracker].validation \in {"complete", "error"}
            THEN [connection EXCEPT !.poller = "done"]
            ELSE LoopTop(connection)
    /\ UNCHANGED <<heap, sessions>>

\* A segment of execute_agent_graph that ends in an await of its own.  The
\* first step of the polling task is in the ready queue since create_task
\* and runs before the timer of any sleep of the call ends.
Orchestrates ==
    /\ connection.poller # "created"
    /\ \/ SessionPhysics(Ws)
       \/ SessionStage1(Ws)
       \/ SessionStage2(Ws)
    /\ UNCHANGED connection

\* The segment of the validator: a rejection with an attempt left goes on to
\* the next gather; otherwise execute_agent_graph returns and the handler
\* goes on to await status_task.
Validates ==
    /\ SessionValidate(Ws)
    /\ connection' = IF sessions'[Ws].pc = "returned"
                      THEN [connection EXCEPT !.handler = "awaiting_status_task"]
                      ELSE connection

\* A gather raises: the exception leaves execute_agent_graph and is caught by
\* the handler's except Exception, which prints it and disconnects.  The
\* polling task is neither awaited nor cancelled.
Excepts ==
    /\ SessionStageRaise(Ws)
    /\ connection' = [connection EXCEPT !.handler = "disconnected"]

\* status_task is done: the handler sends analysis_complete and waits for
\* the next request.
Completes ==
    /\ connection.handler = "awaiting_status_task"
    /\ connection.poller = "done"
    /\ connection' = [connection EXCEPT
            !.handler = "receiving",
            !.sent = Append(@, AnalysisComplete(sessions[Ws].result))]
    /\ UNCHANGED <<heap, sessions>>

WsNext ==
    \/ Receive /\ UNCHANGED <<standalone, firemind_vars>>
    \/ Orchestrates /\ UNCHANGED <<standalone, firemind_vars>>
    \/ Validates /\ UNCHANGED <<standalone, firemind_vars>>
    \/ Excepts /\ UNCHANGED <<standalone, firemind_vars>>
    \/ PollerStarts /\ UNCHANGED <<invocations, orchestration_vars, standalone, firemind_vars>>
    \/ SendCompletes /\ UNCHANGED <<invocations, orchestration_vars, standalone, firemind_vars>>
    \/ PollerWakes /\ UNCHANGED <<invocations, orchestration_vars, standalone, firemind_vars>>
    \/ Completes /\ UNCHANGED <<invocations, orchestration_vars, standalone, firemind_vars>>

\* The variables of the single call stay as they start.
WsInit == ConcurrentInit

WsSpec == WsInit /\ [][WsNext]_vars

\* The event loop resumes every task that is ready: every gather ends, with
\* its results or with an exception, every sleep of the polling task and
\* every send end, and so does the sleep before the validator, after which
\* the call is no longer at that await.
WsFairSpec ==
    /\ WsSpec
    /\ WF_vars((Receive \/ Orchestrates \/ Excepts) /\ UNCHANGED <<standalone, firemind_vars>>)
    /\ WF_vars((PollerStarts \/ SendCompletes \/ PollerWakes \/ Completes)
                    /\ UNCHANGED <<invocations, orchestration_vars, standalone, firemind_vars>>)
    /\ []<>(sessions[Ws].pc # "validation")

\* ------------------------------------------------------------------ the two orchestrators
\* execute_agent_graph of src/orchestrator.py, run beside the call of
\* src/backend/agents/orchestrator.py on the same request and handed, at
\* each of its gathers, the answers the agents gave there.  Its agents call
\* the API without the rate-limit wrapper and parse into its own schemas:
\* a notification has a headline and an explanation where the backend's has
\* a fact, a recommendation a consideration where the backend's has an
\* action.  process_live_graph and validate_agent_reasoning are the same
\* text in both files.

StandaloneNotificationItem(headline, explanation) ==
    [model |-> "NotificationItem", headline |-> headline, explanation |-> explanation]

StandaloneRecommendation(consideration, rationale, confidence_score) ==
    [model |-> "AgentRecommendation",
     consideration |-> consideration,
     rationale |-> rationale,
     confidence_score |-> confidence_score]

\* The answer of the same content in the schemas of src/orchestrator.py.
SameAnswer(v) ==
    IF "model" \notin DOMAIN v THEN v
    ELSE CASE v.model = "AgentNotifications" ->
                AgentNotifications([i \in 1..Len(v.alerts) |->
                    StandaloneNotificationItem(v.alerts[i].fact,
                                               "Conditions changed. Review the plan.")])
           [] v.model = "AgentRecommendation" ->
                StandaloneRecommendation(v.action, v.rationale, v.confidence_score)
           [] OTHER -> v

\* The loop condition and what follows it: the next stage-1 gather, or the
\* fallback.
StandaloneLoopHead(f) ==
    IF f.attempts < (MAX_RETRIES + 1)
    THEN [f EXCEPT !.status_tracker.level_1_agents = "running", !.pc = "stage1"]
    ELSE [f EXCEPT
            !.status_tracker.validation = "error",
            !.result =
                [notifications |-> <<[headline |-> "System Alert",
                                      explanation |-> "Agent validation failed. Reverting to manual command."]>>,
                 recommendation |-> [consideration |-> "Manual Override Required",
                                     rationale |-> "Physics constraints violated.",
                                     confidence_score |-> 0],
                 computed_physics |-> f.processed_graph.computed_physics],
            !.pc = "returned"]

\* The rejected attempt leaves the previous recommendation of the caller.
StandaloneRejected_CallerPrev(f, errs) ==
    [f EXCEPT !.status_tracker.validation = "error",
              !.status_tracker.level_1_agents = "idle",
              !.status_tracker.level_2_agents = "idle",
              !.validator_feedback = Join(errs),
              !.attempts = @ + 1]

\* The writes after a rejection.
StandaloneRejected(f, errs) ==
    [f EXCEPT !.status_tracker.validation = "error",
              !.status_tracker.level_1_agents = "idle",
              !.status_tracker.level_2_agents = "idle",
              !.validator_feedback = Join(errs),
              !.current_previous_rec = model_dump(f.rec_result),
              !.attempts = @ + 1]

\* The segment of the call that starts at f.pc and ends at its next await
\* or at its return; answer holds what each agent of the gather returned.
StandaloneStep(f, req, answer) ==
    CASE f.pc = "start" ->
            [f EXCEPT !.status_tracker.graph_physics = "running", !.pc = "physics"]
      [] f.pc = "physics" ->
            StandaloneLoopHead(
                [f EXCEPT !.processed_graph =
                              process_live_graph(req.live_graph, req.wind_data,
                                                 req.environment_data,
                                                 req.infrastructure_data),
                          !.status_tracker.graph_physics = "complete",
                          !.attempts = 0,
                          !.validator_feedback = <<>>,
                          !.current_previous_rec = req.previous_rec])
      [] f.pc = "stage1" ->
            [f EXCEPT !.fire_result = answer["fire"],
                      !.risk_result = answer["risk"],
                      !.status_tracker.level_1_agents = "complete",
                      !.status_tracker.level_2_agents = "running",
                      !.pc = "stage2"]
      [] f.pc = "stage2" ->
            [f EXCEPT !.notif_result = answer["notif"],
                      !.rec_result = answer["rec"],
                      !.status_tracker.level_2_agents = "complete",
                      !.status_tracker.validation = "running",
                      !.pc = "validation"]
      [] f.pc = "validation" ->
            LET errs == validate_agent_reasoning(f.processed_graph, f.risk_result,
                                                 f.rec_result)
            IN  IF errs = <<>>
                THEN [f EXCEPT
                        !.errors = errs,
                        !.status_tracker.validation = "complete",
                        !.result =
                            [notifications |-> model_dump(f.notif_result).alerts,
                             recommendation |-> model_dump(f.rec_result),
                             computed_physics |-> f.processed_graph.computed_physics],
                        !.pc = "returned"]
                ELSE StandaloneLoopHead(StandaloneRejected([f EXCEPT !.errors = errs], errs))
      [] OTHER -> f

\* Both calls run their segment: the one of src/orchestrator.py from where
\* it stands, with the answers the backend's gather has just collected.
Alongside ==
    /\ standalone' = StandaloneStep(standalone, request,
                                    [c \in Agents |-> SameAnswer(calls[c].value)])
    /\ UNCHANGED <<invocations, connection, firemind_vars>>

\* The calls of both orchestrators with no agent call failing.
VariantsNext ==
    \/ Begin /\ Alongside
    \/ ComputePhysics /\ Alongside
    \/ Stage1Join /\ Alongside
    \/ Stage2Join /\ Alongside
    \/ Validate /\ Alongside
    \/ \E c \in Agents : AgentReturns(c)
            /\ UNCHANGED <<invocations, connection, standalone, firemind_vars>>

VariantsSpec == Init /\ [][VariantsNext]_vars

\* ------------------------------------------------------------------ the push channel
\* broadcast and websocket_endpoint of src/firemind/backend/main.py on one
\* event loop.  An endpoint is "unconnected" before its accept, "receiving"
\* in receive_text, "dropped" when its client has gone and the disconnect is
\* queued for receive_text, "ended" after its remove, and "value_error" when
\* its remove raised.

\* list.remove(x): the list without the first x.
Remove(list, x) ==
    LET k == CHOOSE k \in 1..Len(list) :
                /\ list[k] = x
                /\ \A j \in 1..(k - 1) : list[j] # x
    IN  SubSeq(list, 1, k - 1) \o SubSeq(list, k + 1, Len(list))

Contains(list, x) == \E k \in 1..Len(list) : list[k] = x

\* await ws.accept(); connected_clients.append(ws); await ws.receive_text()
Accept(w) ==
    /\ endpoints[w] = "unconnected"
    /\ connected_clients' = Append(connected_clients, w)
    /\ endpoints' = [endpoints EXCEPT ![w] = "receiving"]
    /\ UNCHANGED broadcast_call

\* The client of w closes the connection: every later send to it fails and
\* receive_text is to raise WebSocketDisconnect.
ClientLeaves(w) ==
    /\ endpoints[w] = "receiving"
    /\ endpoints' = [endpoints EXCEPT ![w] = "dropped"]
    /\ UNCHANGED <<connected_clients, broadcast_call>>

\* except WebSocketDisconnect: connected_clients.remove(ws), which raises
\* ValueError when ws is not in the list.
OnDisconnect(w) ==
    /\ endpoints[w] = "dropped"
    /\ IF Contains(connected_clients, w)
       THEN /\ connected_clients' = Remove(connected_clients, w)
            /\ endpoints' = [endpoints EXCEPT ![w] = "ended"]
       ELSE /\ endpoints' = [endpoints EXCEPT ![w] = "value_error"]
            /\ UNCHANGED connected_clients
    /\ UNCHANGED broadcast_call

RECURSIVE RemoveDisconnected(_, _)
\* The second loop of broadcast, which has no await: every client of the
\* list disconnected is removed in turn, and the first one that is no longer
\* in connected_clients raises ValueError out of broadcast.
RemoveDisconnected(list, disconnected) ==
    IF disconnected = <<>> THEN [list |-> list, raised |-> FALSE]
    ELSE IF ~Contains(list, Head(disconnected)) THEN [list |-> list, raised |-> TRUE]
    ELSE RemoveDisconnected(Remove(list, Head(disconnected)), Tail(disconnected))

\* simulation_loop calls broadcast: the first pass of `for ws in
\* connected_clients`, or of the second loop if the list is empty.
ForNext(frame) ==
    IF frame.i < Len(connected_clients)
    THEN /\ broadcast_call' = [frame EXCEPT !.pc = "sending",
                                            !.ws = connected_clients[frame.i + 1],
                                            !.i = @ + 1]
         /\ UNCHANGED connected_clients
    ELSE LET after == RemoveDisconnected(connected_clients, frame.disconnected)
         IN  /\ connected_clients' = after.list
             /\ broadcast_call' = IF after.raised
                                  THEN [frame EXCEPT !.pc = "raised"]
                                  ELSE IdleBroadcast

Broadcast ==
    /\ broadcast_call.pc = "idle"
    /\ ForNext([IdleBroadcast EXCEPT !.pc = "iterating"])
    /\ UNCHANGED endpoints

\* await ws.send_text(message) ends: it raises if the client has gone, and
\* the list iterator gives the next element, by its index.
SendEnds ==
    /\ broadcast_call.pc = "sending"
    /\ ForNext(IF endpoints[broadcast_call.ws] = "receiving"
               THEN broadcast_call
               ELSE [broadcast_call EXCEPT !.disconnected = Append(@, broadcast_call.ws)])
    /\ UNCHANGED endpoints

backend_vars == <<invocations, heap, sessions, orchestration_vars, connection, standalone>>

PushNext ==
    \/ \E w \in Clients : Accept(w) /\ UNCHANGED backend_vars
    \/ \E w \in Clients : ClientLeaves(w) /\ UNCHANGED backend_vars
    \/ \E w \in Clients : OnDisconnect(w) /\ UNCHANGED backend_vars
    \/ Broadcast /\ UNCHANGED backend_vars
    \/ SendEnds /\ UNCHANGED backend_vars

\* The variables of the orchestrator stay as they start.
PushSpec == ConcurrentInit /\ [][PushNext]_vars

\* ------------------------------------------------------------------ counting invocations
\* The external call of agent c is made in this step: by a wrapper that has
\* just been created, or by one that wakes from its backoff.
Invoked(c) == calls'[c].pc = "calling" /\ calls[c].pc # "calling"

Counted ==
    invocations' = [c \in Agents |-> invocations[c] + (IF Invoked(c) THEN 1 ELSE 0)]

CountingInit == Init /\ request = Request(Calm, <<Paradise, Magalia>>, SuppliedRec)

\* The answers counted with: the number of invocations depends on an answer
\* only through the validator's verdict, so the risk agent gives one analysis
\* that is rejected and one that is accepted, the other agents one answer.
CountedAnswers(c) ==
    CASE c = "risk" -> SessionRisks
      [] c = "rec" -> {SessionRec}
      [] c = "notif" -> {SessionAlerts}
      [] OTHER -> Outputs(c)

CountingNext ==
    \/ Begin /\ Counted /\ UNCHANGED <<connection, standalone, firemind_vars>>
    \/ ComputePhysics /\ Counted /\ UNCHANGED <<connection, standalone, firemind_vars>>
    \/ Stage1Join /\ Counted /\ UNCHANGED <<connection, standalone, firemind_vars>>
    \/ Stage2Join /\ Counted /\ UNCHANGED <<connection, standalone, firemind_vars>>
    \/ StageRaise /\ Counted /\ UNCHANGED <<connection, standalone, firemind_vars>>
    \/ Validate /\ Counted /\ UNCHANGED <<connection, standalone, firemind_vars>>
    \/ \E c \in Agents : AgentReturns(c) /\ calls'[c].value \in CountedAnswers(c) /\ Counted /\ UNCHANGED <<connection, standalone, firemind_vars>>
    \/ \E c \in Agents : AgentFails(c) /\ Counted /\ UNCHANGED <<connection, standalone, firemind_vars>>
    \/ \E c \in Agents : BackoffElapsed(c) /\ Counted /\ UNCHANGED <<connection, standalone, firemind_vars>>

CountingSpec == CountingInit /\ [][CountingNext]_vars

TypeOK ==
    /\ pc \in {"start", "physics", "stage1", "stage2", "validation", "returned", "raised"}
    /\ attempts \in 0..(MAX_RETRIES + 1)
    /\ \A c \in Agents : calls[c].pc \in {"idle", "calling", "sleeping", "returned", "raised"}

\* ------------------------------------------------------------------ claims
InAttempt == pc \in {"stage1", "stage2", "validation"}
Returned == pc = "returned"
\* The loop was left by its condition, after MAX_RETRIES + 1 rejections.
ReturnedFallback == Returned /\ errors # <<>>
\* An attempt was accepted and its outputs returned.
ReturnedValidated == Returned /\ errors = <<>>

FailedCalls == {c \in Agents : calls[c].pc = "raised"}
FatalCalls == {c \in FailedCalls : ~IsRateLimit(calls[c].exc)}

Count(log, kind) == Cardinality({i \in 1..Len(log) : log[i].ev = kind})

\* C1: execute_agent_graph makes at most MAX_RETRIES + 1 = 3 attempts: while
\* an attempt runs it is the 1st, 2nd or 3rd, the counter never passes 3, a
\* call that has counted 3 rejections has returned the fallback, and every
\* execution ends (it returns, or an agent call has failed and it raises).
C1_AtMostThreeAttempts ==
    /\ [](/\ attempts <= 3
          /\ (InAttempt => attempts + 1 <= 3)
          /\ (attempts = 3 => /\ Returned
                              /\ result.recommendation.confidence_score = 0
                              /\ Len(result.notifications) = 1))
    /\ <>(pc \in {"returned", "raised"})

\* The third attempt was rejected and the call returned.
C1_Witness == Returned /\ attempts = 3 /\ request.previous_rec = None

\* C2: a validated result against a CRITICAL baseline comes from an attempt
\* whose RiskAnalysis has threat_level CRITICAL.
C2_ValidatedCriticalAgrees ==
    (/\ ReturnedValidated
     /\ processed_graph.computed_physics.deterministic_baseline_threat = "CRITICAL")
        => /\ risk_result.threat_level = "CRITICAL"
           /\ result.recommendation = model_dump(rec_result)

\* A CRITICAL baseline, one rejected attempt, then an accepted one.
C2_Witness ==
    /\ ReturnedValidated
    /\ attempts = 1
    /\ processed_graph.computed_physics.deterministic_baseline_threat = "CRITICAL"

\* The towns nearer than 5.0 km.
CriticalTowns ==
    LET towns == Get(request.infrastructure_data, "nearby_towns", <<>>)
    IN  {towns[i] : i \in {j \in 1..Len(towns) : Get(towns[j], "distance_km", 990) < 50}}

\* C3: in a validated result every town nearer than 5.0 km is among the
\* accepted RiskAnalysis.vulnerable_targets.
C3_EveryExposureListed ==
    ReturnedValidated =>
        \A town \in CriticalTowns : town.name \in risk_result.vulnerable_targets

\* C4: after 3 rejected attempts the result is the fixed fallback payload (one
\* system-alert notification, "Manual Override Required" with confidence 0,
\* the computed physics) and validation is 'error'.
C4_FallbackAfterThreeRejections ==
    (Returned /\ attempts = 3) =>
        /\ Len(result.notifications) = 1
        /\ result.notifications[1].headline = "System Alert"
        /\ result.recommendation.consideration = "Manual Override Required"
        /\ result.recommendation.confidence_score = 0
        /\ result.computed_physics = processed_graph.computed_physics
        /\ status_tracker.validation = "error"

\* The fallback was returned for the request with two exposed towns.
C4_Witness == Returned /\ attempts = 3 /\ Cardinality(CriticalTowns) = 2

\* C5: the call raises only when an agent call failed, never for validator
\* violations; what it returns has exactly the keys notifications,
\* recommendation, computed_physics and is the output of an attempt without
\* violations or the fallback.
C5_ReturnsUnlessAgentFails ==
    /\ pc = "raised" => \E c \in FailedCalls : calls[c].exc = raised
    /\ (pc # "raised" /\ FailedCalls = {}) => raised = None
    /\ Returned =>
        /\ DOMAIN result = {"notifications", "recommendation", "computed_physics"}
        /\ \/ /\ validate_agent_reasoning(processed_graph, risk_result, rec_result) = <<>>
              /\ result.recommendation = model_dump(rec_result)
              /\ result.notifications = model_dump(notif_result).alerts
           \/ /\ attempts = MAX_RETRIES + 1
              /\ result.recommendation.confidence_score = 0

\* A rejection was followed by a return, with no exception.
C5_Witness == Returned /\ attempts >= 1 /\ raised = None /\ errors = <<>>

\* C6: once an agent call of the awaited stage has failed with a non-rate-limit
\* error the orchestration does nothing but raise: no later stage and no
\* validation starts, the tracker and the attempt counter stay as they are,
\* nothing is returned, and the exception raised is the one of the stage's
\* first failed call.
C6_FatalFailureAborts ==
    [][/\ (FatalCalls # {}) =>
            /\ attempts' = attempts
            /\ status_tracker' = status_tracker
            /\ pc' \in {pc, "raised"}
       /\ (FatalCalls' # {}) =>
            /\ pc' \in {"stage1", "stage2", "raised"}
            /\ result' = None
            /\ status_tracker'.validation \notin {"running", "complete"}
            /\ (FatalCalls' \cap Stage1 # {}) => status_tracker'.level_2_agents = "idle"
            /\ gather_exc' \in {calls'[c].exc : c \in FailedCalls'}
            /\ (pc' = "raised") => raised' = gather_exc'
            /\ (FailedCalls' = FatalCalls' /\ Cardinality(FatalCalls') = 1 /\ pc' = "raised")
                    => \A c \in FatalCalls' : raised' = calls'[c].exc]_vars

\* A stage-2 call failed fatally in a retry attempt and the call raised.
C6_Witness ==
    /\ pc = "raised"
    /\ attempts = 1
    /\ FatalCalls \cap Stage2 # {}
    /\ raised = Exception("Connection reset")

C8_SameRecordShape ==
    Returned =>
        /\ DOMAIN result.recommendation = {"action", "rationale", "confidence_score"}
        /\ \A i \in 1..Len(result.notifications) : "fact" \in DOMAIN result.notifications[i]

\* The events of a wrapped call are invoke (rate_limit sleep invoke)* and then
\* nothing, ok, fatal or rate_limit.
RetriesFollowRateLimits(log) ==
    \A i \in 1..Len(log) :
        /\ (log[i].ev = "invoke" /\ i > 1) =>
                i > 2 /\ log[i - 1].ev = "sleep" /\ log[i - 2].ev = "rate_limit"
        /\ (log[i].ev = "ok") => i = Len(log) /\ log[i - 1].ev = "invoke"

\* C9: a wrapped call is invoked at most 3 times, again only after a
\* rate-limit failure; it returns the first successful result, never None, and
\* when the third invocation is rate-limited it raises that failure.
C9_AtMostThreeInvocations ==
    \A c \in Agents :
        LET call == calls[c]
        IN  /\ Count(call.log, "invoke") <= 3
            /\ Count(call.log, "invoke") = (IF call.pc = "idle" THEN 0 ELSE call.attempt + 1)
            /\ RetriesFollowRateLimits(call.log)
            /\ call.pc = "returned" =>
                    /\ call.value \in Outputs(c)
                    /\ Count(call.log, "ok") = 1
            /\ (call.pc = "raised" /\ IsRateLimit(call.exc)) =>
                    /\ Count(call.log, "invoke") = 3
                    /\ Count(call.log, "rate_limit") = 3
                    /\ call.exc = call.e

\* A call whose three invocations were all rate-limited.
C9_Witness == \E c \in Agents : calls[c].pc = "raised" /\ IsRateLimit(calls[c].exc)

\* C10: a failure that is not a rate-limit failure ends the wrapped call at
\* once, on whichever attempt: the call raises it, sleeps for no backoff after
\* it and is not invoked again.
C10_FatalNotRetried ==
    \A c \in Agents :
        LET call == calls[c]
        IN  /\ call.pc = "sleeping" => IsRateLimit(call.e)
            /\ (call.e # None /\ ~IsRateLimit(call.e)) =>
                    /\ call.pc = "raised"
                    /\ call.exc = call.e
                    /\ Count(call.log, "invoke") = call.attempt + 1
                    /\ Count(call.log, "sleep") = call.attempt
                    /\ call.log[Len(call.log)].ev \notin {"sleep", "invoke"}

\* A fatal failure on the second or third invocation, after a backoff.
C10_Witness ==
    \E c \in Agents :
        calls[c].pc = "raised" /\ ~IsRateLimit(calls[c].exc) /\ calls[c].attempt >= 1


\* The lengths of the sleeps of a wrapped call, in order.
SleepTimes(log) ==
    LET sleeps == SelectSeq(log, LAMBDA x : x.ev = "sleep")
    IN  [i \in 1..Len(sleeps) |-> sleeps[i].t]

RECURSIVE Sum(_)
Sum(seq) == IF seq = <<>> THEN 0 ELSE Head(seq) + Sum(Tail(seq))

\* C11: a wrapped call waits 20 s after its first rate-limited invocation and
\* 40 s after its second, each wait directly after the failure, never after
\* the third: the sleeps of one call are a prefix of <<20, 40>> and add up to
\* at most 60 s.
C11_BackoffDoubles ==
    \A c \in Agents :
        LET call == calls[c]
            times == SleepTimes(call.log)
        IN  /\ Len(times) <= 2
            /\ \A i \in 1..Len(times) : times[i] = <<20, 40>>[i]
            /\ Sum(times) <= 60
            /\ Len(times) = (IF call.pc = "sleeping" THEN call.attempt + 1 ELSE call.attempt)
            /\ (call.pc = "raised" /\ Count(call.log, "rate_limit") = 3) =>
                    /\ Sum(times) = 60
                    /\ call.log[Len(call.log)].ev = "rate_limit"

\* A call that has slept 20 s and 40 s and is being invoked a third time.
C11_Witness ==
    \E c \in Agents : calls[c].pc = "calling" /\ SleepTimes(calls[c].log) = <<20, 40>>


\* The wrapper of agent c backs off or retries in this step.
RetryStep(c) ==
    \/ calls[c].pc = "calling" /\ calls'[c].pc = "sleeping"
    \/ calls[c].pc = "sleeping" /\ calls'[c].pc = "calling"

\* C12: a rate-limit failure absorbed by the wrapper does not reach the
\* orchestration loop: the steps in which a call backs off and is invoked
\* again leave the attempt counter, the feedback, the previous recommendation,
\* the tracker, the orchestration's position and results and every other
\* agent's call as they are.
C12_RetryInvisible ==
    [][\A c \in Agents : RetryStep(c) =>
            /\ UNCHANGED <<attempts, validator_feedback, current_previous_rec>>
            /\ UNCHANGED <<status_tracker, pc, processed_graph, gather_exc, result, raised>>
            /\ UNCHANGED <<fire_result, risk_result, notif_result, rec_result, errors>>
            /\ \A d \in Agents \ {c} : calls'[d] = calls[d]]_vars

\* Stage 1 of the first attempt is complete, the risk call after one retry,
\* the fire call invoked once.
C12_Witness ==
    /\ pc = "stage1"
    /\ attempts = 0
    /\ calls["risk"].pc = "returned" /\ calls["risk"].attempt = 1
    /\ calls["fire"].pc = "returned" /\ Count(calls["fire"].log, "invoke") = 1
    /\ status_tracker.level_1_agents = "running"


\* The graph that process_live_graph yields for the inputs of the request.
GraphOfRequest ==
    process_live_graph(request.live_graph, request.wind_data,
                       request.environment_data, request.infrastructure_data)

\* C13: the processed graph is computed once, before the first attempt, and no
\* retry computes it again or changes it: from then on it is the graph of the
\* request's inputs, every stage-1 call of every attempt is handed that graph,
\* the validator reads it, and the computed_physics of the returned result,
\* validated or fallback, is the one computed at the start.
C13_GraphComputedOnce ==
    /\ [](/\ (pc \in {"start", "physics"}) <=> (processed_graph = None)
          /\ processed_graph # None => processed_graph = GraphOfRequest
          /\ \A c \in Stage1 :
                calls[c].pc # "idle" => calls[c].args.processed_graph = GraphOfRequest
          /\ Returned => result.computed_physics = GraphOfRequest.computed_physics)
    /\ [][processed_graph # None => processed_graph' = processed_graph]_vars

\* The third attempt is under way after two rejections.
C13_Witness ==
    /\ attempts = 2
    /\ pc = "stage1"
    /\ calls["risk"].pc = "calling"
    /\ calls["risk"].args.processed_graph = processed_graph


\* The violations the validator finds in the outputs the attempt now holds.
ViolationsNow == validate_agent_reasoning(processed_graph, risk_result, rec_result)

\* C14: the feedback is empty during the first attempt; a rejection replaces
\* it by the joined violations of the attempt just rejected, whatever the
\* feedback was before, and nothing else changes it; the risk call and the
\* recommendation call of an attempt are both handed the feedback of that
\* attempt.
C14_FeedbackOfPrecedingAttempt ==
    /\ [](/\ attempts = 0 => validator_feedback = <<>>
          /\ \A c \in {"risk", "rec"} :
                calls[c].pc # "idle" => calls[c].args.feedback = validator_feedback
          /\ (attempts > 0 /\ pc = "stage1") =>
                /\ validator_feedback = Join(ViolationsNow)
                /\ validator_feedback # <<>>)
    /\ [][/\ attempts' # attempts =>
                /\ pc = "validation"
                /\ ViolationsNow # <<>>
                /\ validator_feedback' = Join(ViolationsNow)
          /\ attempts' = attempts => validator_feedback' = validator_feedback]_vars

\* The third attempt runs on the feedback of the second, which differs from
\* what the first attempt was rejected for.
C14_Witness ==
    /\ attempts = 2
    /\ pc = "stage2"
    /\ calls["rec"].pc = "calling"
    /\ calls["rec"].args.feedback = <<LogicViolation>>
    /\ current_previous_rec # None
    /\ validate_agent_reasoning(processed_graph, risk_result, rec_result) # <<>>


\* C15: the recommendation agent of the first attempt is handed the previous
\* recommendation the caller supplied; the one of a later attempt is handed
\* the recommendation of the attempt before it, the one the validator has
\* just rejected.
C15_PreviousRecOfPrecedingAttempt ==
    /\ [](/\ (attempts = 0 /\ InAttempt) => current_previous_rec = request.previous_rec
          /\ calls["rec"].pc # "idle" =>
                /\ pc \in {"stage2", "raised"}
                /\ calls["rec"].args.previous_rec = current_previous_rec
                /\ attempts = 0 => calls["rec"].args.previous_rec = request.previous_rec
                /\ attempts > 0 => calls["rec"].args.previous_rec = model_dump(rec_result))
    /\ [][attempts' # attempts =>
                /\ ViolationsNow # <<>>
                /\ current_previous_rec' = model_dump(rec_result)]_vars

\* The caller supplied a previous recommendation, the first attempt was
\* rejected, and the second attempt's recommendation agent runs on the
\* rejected recommendation.
C15_Witness ==
    /\ attempts = 1
    /\ request.previous_rec # None
    /\ calls["rec"].pc = "calling"
    /\ calls["rec"].args.previous_rec = model_dump(rec_result)
    /\ calls["rec"].args.previous_rec # request.previous_rec


\* C16: when execute_agent_graph has ended, by a return or by an exception of
\* an agent call, no stage of the tracker is left 'running': every stage that
\* was marked running has been marked complete or error since.
C16_NoStageLeftRunning ==
    pc \in {"returned", "raised"} =>
        \A stage \in DOMAIN status_tracker : status_tracker[stage] # "running"


AllComplete == [stage \in DOMAIN NewStatusTracker |-> "complete"]

\* C17: an attempt without violations ends the call with validation, and
\* with it all four stages, 'complete'; the notifications and the
\* recommendation returned are the two outputs of stage 2 of that attempt,
\* both produced from the risk analysis the validator accepted.
C17_AcceptedAttemptReturned ==
    /\ [](ReturnedValidated =>
            /\ status_tracker = AllComplete
            /\ ViolationsNow = <<>>
            /\ result.notifications = model_dump(notif_result).alerts
            /\ result.recommendation = model_dump(rec_result))
    /\ [][/\ (pc = "stage2" /\ pc' = "validation") =>
                /\ notif_result' = calls["notif"].value
                /\ rec_result' = calls["rec"].value
                /\ \A c \in Stage2 : /\ calls[c].args.risk_data = risk_result
                                     /\ calls[c].args.fire_data = fire_result
                /\ UNCHANGED <<fire_result, risk_result>>
          /\ pc = "validation" =>
                /\ UNCHANGED <<fire_result, risk_result, notif_result, rec_result>>
                /\ (ViolationsNow = <<>>) <=> (pc' = "returned" /\ errors' = <<>>)
                /\ ViolationsNow = <<>> => status_tracker'.validation = "complete"]_vars

\* The second attempt was accepted, and its recommendation is not the one
\* the first attempt was rejected with.
C17_Witness ==
    /\ ReturnedValidated
    /\ attempts = 1
    /\ result.recommendation = model_dump(rec_result)
    /\ result.recommendation # current_previous_rec
    /\ status_tracker = AllComplete


\* The validator rejects the attempt in this step.
Rejection == pc = "validation" /\ ViolationsNow # <<>>

\* C18: a rejection sets validation to 'error' and the two agent stages to
\* 'idle', counts exactly one more attempt and leaves graph_physics
\* 'complete' and the processed graph as they were; when the loop head that
\* follows in the same step starts another attempt, level_1_agents is
\* 'running' again at the end of the step.  A call that returned the
\* fallback has left the tracker at complete, idle, idle, error.
C18_RejectionResets ==
    /\ [](ReturnedFallback =>
            status_tracker = [graph_physics |-> "complete", level_1_agents |-> "idle",
                              level_2_agents |-> "idle", validation |-> "error"])
    /\ [][Rejection =>
            /\ attempts' = attempts + 1
            /\ status_tracker.graph_physics = "complete"
            /\ status_tracker'.graph_physics = "complete"
            /\ status_tracker'.validation = "error"
            /\ status_tracker'.level_2_agents = "idle"
            /\ status_tracker'.level_1_agents =
                   (IF pc' = "stage1" THEN "running" ELSE "idle")
            /\ (pc' = "stage1") <=> LoopCondition(attempts + 1)
            /\ processed_graph' = processed_graph]_vars

\* The first attempt was rejected and the second has not yet joined stage 1.
C18_Witness ==
    /\ attempts = 1
    /\ pc = "stage1"
    /\ errors # <<>>
    /\ status_tracker = [graph_physics |-> "complete", level_1_agents |-> "running",
                         level_2_agents |-> "idle", validation |-> "error"]


\* A call is in flight: the agent was invoked, or its wrapper sleeps before
\* the next invocation.
InFlight(c) == calls[c].pc \in {"calling", "sleeping"}

\* C19: the stages of an attempt are joined in order.  The stage-2 calls are
\* started in a step that finds both stage-1 calls returned, and are handed
\* the fire and risk results of those two calls; the validator is reached in
\* a step that finds both stage-2 calls returned, and reads the risk result
\* stage 2 was handed; while stage 2 or the validator runs, the stage-1 calls
\* are not running and the stage-1 results do not change; the tracker is
\* written only in steps that find no call in flight.
C19_StagesJoinedInOrder ==
    /\ [](/\ pc = "stage2" =>
                /\ \A c \in Stage1 : calls[c].pc = "idle"
                /\ \A c \in Stage2 : /\ calls[c].pc # "idle"
                                     /\ calls[c].args.fire_data = fire_result
                                     /\ calls[c].args.risk_data = risk_result
          /\ pc = "stage1" => \A c \in Stage2 : calls[c].pc = "idle"
          /\ pc = "validation" => \A c \in Agents : calls[c].pc = "idle")
    /\ [][/\ (\E c \in Stage2 : calls[c].pc = "idle" /\ calls'[c].pc # "idle") =>
                /\ \A d \in Stage1 : calls[d].pc = "returned"
                /\ fire_result' = calls["fire"].value
                /\ risk_result' = calls["risk"].value
                /\ calls["risk"].args.feedback = validator_feedback
          /\ pc' = "validation" /\ pc # "validation" =>
                /\ pc = "stage2"
                /\ \A d \in Stage2 : calls[d].pc = "returned"
                /\ UNCHANGED <<fire_result, risk_result>>
          /\ pc = "validation" =>
                errors' = validate_agent_reasoning(processed_graph, risk_result,
                                                   rec_result)
          /\ status_tracker' # status_tracker => \A c \in Agents : ~InFlight(c)]_vars

\* Stage 2 of a retry is running on the results stage 1 of that retry just
\* returned, one of its calls after a backoff.
C19_Witness ==
    /\ pc = "stage2"
    /\ attempts = 1
    /\ calls["rec"].pc = "calling" /\ calls["rec"].attempt = 1
    /\ calls["notif"].pc = "returned"
    /\ calls["rec"].args.risk_data = risk_result
    /\ status_tracker.level_1_agents = "complete"
    /\ status_tracker.level_2_agents = "running"


\* The calls of the stage the orchestration is waiting for.
StageOf(p) == IF p = "stage1" THEN Stage1 ELSE IF p = "stage2" THEN Stage2 ELSE {}

\* C20: a stage hands over its pair of results only in a step that finds both
\* of its calls returned.  The first call of a stage that fails sets the
\* failure of the stage, which no later failure replaces; from then on the
\* stage can fail at once, whatever the other call is doing, and it fails
\* with that first failure.  The step in which it fails leaves every call as
\* it is: a call still in flight is not cancelled, it runs on to its own end,
\* and nothing it yields reaches the orchestration, which has ended without a
\* result.
C20_FailFastNoCancel ==
    /\ [](/\ (pc \in {"stage1", "stage2"} /\ gather_exc # None) =>
                /\ ENABLED StageRaise
                /\ \E c \in StageOf(pc) : calls[c].pc = "raised"
                /\ ~ENABLED Stage1Join /\ ~ENABLED Stage2Join
          /\ pc = "raised" => result = None /\ raised # None)
    /\ [][/\ (pc = "stage1" /\ pc' = "stage2") =>
                \A c \in Stage1 : calls[c].pc = "returned"
          /\ (pc = "stage2" /\ pc' = "validation") =>
                \A c \in Stage2 : calls[c].pc = "returned"
          /\ \A c \in Agents :
                (calls'[c].pc = "raised" /\ calls[c].pc # "raised"
                    /\ c \in StageOf(pc) /\ gather_exc = None) =>
                        gather_exc' = calls'[c].exc
          /\ gather_exc # None => gather_exc' = gather_exc
          /\ (pc' = "raised" /\ pc # "raised") =>
                /\ raised' = gather_exc
                /\ gather_exc # None
                /\ calls' = calls
          /\ pc = "raised" =>
                UNCHANGED <<pc, raised, result, status_tracker, loop_vars,
                            stage_results, errors, gather_exc>>]_vars
    /\ [](pc = "raised" => <>(\A c \in Agents : ~InFlight(c)))

\* Stage 1 has failed with the fire agent's error while the risk call, on its
\* second invocation, is still in flight.
C20_Witness ==
    /\ pc = "raised"
    /\ calls["fire"].pc = "raised"
    /\ raised = calls["fire"].exc
    /\ calls["risk"].pc = "calling"
    /\ calls["risk"].attempt = 1


\* The status dict of caller c's call.
TrackerOf(c) == heap[sessions[c].status_tracker]

Called(c) == sessions[c].pc # "idle"

\* C21: concurrent calls are isolated.  Every call has a status dict of its
\* own, no two calls hold the same one; a step of one call leaves the status
\* dict, the attempt counter, the feedback and the previous recommendation of
\* every other call as they are; so each call's dict shows that call's own
\* stage, and each call makes its own three attempts at most, whatever the
\* other calls are rejected for.
C21_RequestsIsolated ==
    /\ [](\A c \in Callers : Called(c) =>
            /\ sessions[c].status_tracker \in 1..Len(heap)
            /\ \A d \in Callers \ {c} :
                    Called(d) => sessions[d].status_tracker # sessions[c].status_tracker
            /\ sessions[c].attempts <= MAX_RETRIES + 1
            /\ sessions[c].pc = "physics" => TrackerOf(c).graph_physics = "running"
            /\ sessions[c].pc = "stage1" => TrackerOf(c).level_1_agents = "running"
            /\ sessions[c].pc = "stage2" => TrackerOf(c).level_2_agents = "running"
            /\ sessions[c].pc = "validation" => TrackerOf(c).validation = "running"
            /\ sessions[c].pc = "returned" =>
                    IF sessions[c].attempts = MAX_RETRIES + 1
                    THEN TrackerOf(c) = [graph_physics |-> "complete",
                                         level_1_agents |-> "idle",
                                         level_2_agents |-> "idle",
                                         validation |-> "error"]
                    ELSE TrackerOf(c) = [stage \in DOMAIN NewStatusTracker |-> "complete"])
    /\ [][\A c \in Callers : \A d \in Callers \ {c} :
            (sessions'[d] # sessions[d] /\ Called(c)) =>
                /\ sessions'[c] = sessions[c]
                /\ heap'[sessions[c].status_tracker] = TrackerOf(c)]_vars

\* One call has returned the fallback after three rejections while a second
\* is in its first attempt and a third has been accepted at once.
C21_Witness ==
    /\ sessions["analyze_fire"].pc = "returned"
    /\ sessions["analyze_fire"].attempts = 3
    /\ sessions["websocket_endpoint"].pc = "stage2"
    /\ sessions["websocket_endpoint"].attempts = 0
    /\ sessions["process_timestamped_data"].pc = "returned"
    /\ sessions["process_timestamped_data"].attempts = 0


Translated == pc = "translated"

towns_in == request.infrastructure_data.nearby_towns
physics_out == processed_graph.computed_physics

\* The positions of the towns nearer than d tenths of a km.
Within(d) ==
    {i \in 1..Len(towns_in) :
        "distance_km" \in DOMAIN towns_in[i] /\ towns_in[i].distance_km < d}

\* The k-th of a set of positions, in list order.
Kth(positions, k) ==
    CHOOSE i \in positions : Cardinality({j \in positions : j < i}) = k - 1

\* C22: a town nearer than 5.0 km, wherever it stands in the list, makes the
\* baseline CRITICAL; the exposures are one record per such town, in the
\* order of the list, each beginning with its town's name and " is "; a town
\* at 5.0 km or farther, or without a distance, has no record.
C22_ExposurePerNearTown ==
    Translated =>
        LET exposures == physics_out.critical_exposures_identified
        IN  /\ Within(50) # {} => physics_out.deterministic_baseline_threat = "CRITICAL"
            /\ Len(exposures) = Cardinality(Within(50))
            /\ \A k \in 1..Len(exposures) :
                    StartsAt(exposures[k], 1,
                             towns_in[Kth(Within(50), k)].name \o <<SP, "is", SP>>)

\* Two near towns in calm conditions, behind a town at exactly 5.0 km.
C22_Witness ==
    /\ Translated
    /\ towns_in = <<Oroville, Magalia, Paradise>>
    /\ request.wind_data = [speed |-> 10]
    /\ Len(physics_out.critical_exposures_identified) = 2
    /\ physics_out.deterministic_baseline_threat = "CRITICAL"


wind_in == Get(request.wind_data, "speed", 0)
slope_in == Get(request.environment_data, "slope", 0)

\* The velocity or the wind-slope rule holds for the request.
RuleHolds ==
    \/ physics_out.effective_spread_velocity > 1500
    \/ wind_in > 30 /\ slope_in > 15

\* C23: an effective velocity above 15.0, or wind above 30 with slope above
\* 15, gives a CRITICAL baseline whatever the towns are; a velocity of 15.0 or
\* less with wind of 30 or less or slope of 15 or less gives, without a town
\* under 5 km, what the towns alone give, which is not CRITICAL.
C23_PhysicsRuleEscalates ==
    Translated =>
        /\ RuleHolds => physics_out.deterministic_baseline_threat = "CRITICAL"
        /\ (~RuleHolds /\ Within(50) = {}) =>
                physics_out.deterministic_baseline_threat =
                    (IF Within(150) # {} THEN "ELEVATED" ELSE "LOW")

\* The velocity is exactly 15.0, the wind 30 with slope 16 and the only town
\* is at 12 km: the baseline is ELEVATED.
C23_Witness ==
    /\ Translated
    /\ physics_out.effective_spread_velocity = 1500
    /\ wind_in = 30 /\ slope_in = 16
    /\ towns_in = <<Chico>>
    /\ physics_out.deterministic_baseline_threat = "ELEVATED"


Rank(threat) == CASE threat = "LOW" -> 0 [] threat = "ELEVATED" -> 1 [] threat = "CRITICAL" -> 2

Reverse(seq) == [i \in 1..Len(seq) |-> seq[Len(seq) + 1 - i]]

\* The threat the town loop holds after the first n towns.
ThreatAfter(n) == TownLoop(SubSeq(towns_in, 1, n), "LOW", <<>>).baseline_threat

\* The baseline of the same request with its towns in another order.
ThreatOf(towns) ==
    process_live_graph(request.live_graph, request.wind_data, request.environment_data,
                       [nearby_towns |-> towns]).computed_physics.deterministic_baseline_threat

\* C24: the classification only rises within one computation: the threat
\* after each town is at least the threat before it, and the final baseline
\* at least the threat after the last town, so CRITICAL once set stays.  The
\* baseline is CRITICAL iff some town is under 5.0 km or the velocity or
\* wind-slope rule holds, otherwise ELEVATED iff some town is under 15.0 km,
\* otherwise LOW, and it is the same for the towns in reverse order.
C24_ThreatMonotone ==
    Translated =>
        LET threat == physics_out.deterministic_baseline_threat
        IN  /\ \A n \in 1..Len(towns_in) : Rank(ThreatAfter(n - 1)) <= Rank(ThreatAfter(n))
            /\ Rank(ThreatAfter(Len(towns_in))) <= Rank(threat)
            /\ threat = (IF Within(50) # {} \/ RuleHolds THEN "CRITICAL"
                         ELSE IF Within(150) # {} THEN "ELEVATED" ELSE "LOW")
            /\ threat = ThreatOf(Reverse(towns_in))

\* A town at 12 km is processed after a town at 2.8 km, with no rule
\* escalating: the baseline stays CRITICAL.
C24_Witness ==
    /\ Translated
    /\ towns_in = <<Paradise, Chico>>
    /\ ~RuleHolds
    /\ ThreatAfter(1) = "CRITICAL"
    /\ physics_out.deterministic_baseline_threat = "CRITICAL"


step_in == Get(request.live_graph, "step", 1)
burning_in == Get(request.live_graph, "total_burning", 0)
vegetation_in == Get(request.environment_data, "terrain_vegetation", "unknown")

Abs(x) == IF x < 0 THEN 0 - x ELSE x

\* The three fuels in lower, upper and capitalised letters.
FuelSpellings == {"chaparral", "Chaparral", "CHAPARRAL", "brush", "Brush", "BRUSH",
                  "timber", "Timber", "TIMBER"}

\* The multiplier the request calls for, in tenths.
MultiplierDue ==
    10 + (IF slope_in > 20 THEN 5 ELSE 0) + (IF vegetation_in \in FuelSpellings THEN 3 ELSE 0)

\* The request of the worked example: 40 burning cells at step 2, slope 25,
\* chaparral, no towns.
IsExample ==
    /\ burning_in = 40 /\ step_in = 2 /\ slope_in = 25 /\ wind_in = 10
    /\ vegetation_in = "chaparral" /\ towns_in = <<>>

\* C25 as stated: the base velocity is the quotient total_burning /
\* max(step, 1) and the effective velocity the product of base velocity and
\* multiplier.
C25_ExactQuotientAndProduct ==
    Translated =>
        /\ physics_out.base_spread_velocity * Max(step_in, 1) = 100 * burning_in
        /\ physics_out.effective_spread_velocity * 10 =
                physics_out.base_spread_velocity * physics_out.effective_velocity_multiplier

\* C25: a step of 0 or less is replaced by 1 and echoed so in raw_stats; the
\* base velocity is total_burning / max(step, 1) rounded to the nearest
\* hundredth; the multiplier is 1.0, plus 0.5 if slope > 20, plus 0.3 for
\* chaparral, brush or timber in any letter case; the effective velocity is
\* base velocity times multiplier rounded to the nearest hundredth; the
\* worked example gives 20.0, 1.8, 36.0, CRITICAL and no exposures.
C25_RoundedVelocities ==
    Translated =>
        LET step == processed_graph.raw_stats.step
            base == physics_out.base_spread_velocity
            mult == physics_out.effective_velocity_multiplier
            eff == physics_out.effective_spread_velocity
        IN  /\ step = (IF step_in <= 0 THEN 1 ELSE step_in)
            /\ processed_graph.raw_stats.active_fire_cells = burning_in
            /\ 2 * Abs(base * step - 100 * burning_in) <= step
            /\ mult = MultiplierDue
            /\ 2 * Abs(eff * 10 - base * mult) <= 10
            /\ IsExample =>
                    /\ base = 2000 /\ mult = 18 /\ eff = 3600
                    /\ physics_out.deterministic_baseline_threat = "CRITICAL"
                    /\ physics_out.critical_exposures_identified = <<>>

\* 20 cells at step 3 in timber: 6.67 and 8.67, neither the exact quotient
\* nor the exact product.
C25_Witness ==
    /\ Translated
    /\ burning_in = 20 /\ step_in = 3 /\ vegetation_in = "TIMBER"
    /\ physics_out.base_spread_velocity = 667
    /\ physics_out.effective_spread_velocity = 867


Checked == pc = "checked"

\* The rules among the validator's violations.
R1Fired == \E i \in 1..Len(errors) : errors[i].rule = "Physics Violation"
R2Fired == \E i \in 1..Len(errors) : errors[i].rule = "Logic Violation"

\* C26: R1 is reported exactly when the baseline is CRITICAL and the risk
\* analysis states a level other than the string CRITICAL, whatever its
\* targets are; against a CRITICAL baseline without exposures the level LOW
\* gets that one violation, which quotes it, and nothing else; a baseline
\* that is not CRITICAL never gets R1.
C26_MustEscalate ==
    Checked =>
        /\ R1Fired <=> /\ physics_out.deterministic_baseline_threat = "CRITICAL"
                       /\ risk_result.threat_level # "CRITICAL"
        /\ (/\ physics_out.deterministic_baseline_threat = "CRITICAL"
            /\ physics_out.critical_exposures_identified = <<>>
            /\ risk_result.threat_level = "LOW") =>
                errors = <<PhysicsViolation("LOW")>>
        /\ physics_out.deterministic_baseline_threat # "CRITICAL" => ~R1Fired

\* The baseline is CRITICAL by the physics rule alone and the analysis says
\* 'critical' in lower case, with targets listed: R1 alone.
C26_Witness ==
    /\ Checked
    /\ towns_in = <<>>
    /\ physics_out.deterministic_baseline_threat = "CRITICAL"
    /\ risk_result.threat_level = "critical"
    /\ risk_result.vulnerable_targets = {<<"Paradise">>}
    /\ errors = <<PhysicsViolation("critical")>>


\* The names the validator requires: those it extracts from the exposures.
RequiredNames ==
    LET names == ExposureNames(physics_out.critical_exposures_identified)
    IN  {names[i] : i \in 1..Len(names)}

\* The violations of the same analysis with its targets completed by every
\* required name, the level held.
ErrorsWithTargetsFixed ==
    validate_agent_reasoning(processed_graph,
                             RiskAnalysis(risk_result.threat_level,
                                          risk_result.vulnerable_targets \cup RequiredNames),
                             rec_result)

\* An analysis that lacks a required name gets R2, whatever its level.
MissingNameFiresR2 ==
    (RequiredNames \ risk_result.vulnerable_targets # {}) => R2Fired

\* Completing the targets removes R2 and nothing else.
FixingTargetsClearsR2 ==
    ErrorsWithTargetsFixed = SelectSeq(errors, LAMBDA v : v.rule # "Logic Violation")

\* Both violations come as [R1, R2].
BothInOrder ==
    (R1Fired /\ R2Fired) =>
        errors = <<PhysicsViolation(risk_result.threat_level), LogicViolation>>

\* C27: R1 and R2 are evaluated independently and both collected: an
\* analysis whose targets lack a required exposure name gets R2 whatever its
\* level; completing the targets alone removes exactly R2 and leaves R1 as it
\* was; when both fire the list is [R1, R2].
C27_RulesIndependent ==
    Checked => MissingNameFiresR2 /\ FixingTargetsClearsR2 /\ BothInOrder



\* C28: the verdict depends on the graph and the risk analysis only: with
\* any other recommendation in place of the one given, the validator returns
\* the same violations, so the attempt is accepted with all of them or with
\* none.
C28_RecommendationNotRead ==
    Checked =>
        \A rec \in RecInputs :
            /\ validate_agent_reasoning(processed_graph, risk_result, rec) = errors
            /\ (validate_agent_reasoning(processed_graph, risk_result, rec) = <<>>)
                    <=> (errors = <<>>)

\* An accepted analysis checked together with a recommendation of
\* confidence 0.
C28_Witness ==
    /\ Checked
    /\ rec_result.confidence_score = 0
    /\ physics_out.deterministic_baseline_threat = "CRITICAL"
    /\ physics_out.critical_exposures_identified # <<>>
    /\ errors = <<>>


\* The positions of the towns under 5 km that have a name.
NamedNear == {i \in Within(50) : Get(towns_in[i], "name", <<>>) # <<>>}

\* The name the validator takes from the record of the town at position i.
ExtractedName(i) ==
    LET k == Cardinality({j \in Within(50) : j <= i})
    IN  Strip(SplitFirst(physics_out.critical_exposures_identified[k], <<SP, "is", SP>>))

\* C29: the name extracted from the exposure record of every named town
\* under 5 km is that town's name, so an analysis that lists the exact name
\* of each such town gets no R2 violation, also for a name that holds " is "
\* or has whitespace around it.
C29_NameRoundTrip ==
    Checked =>
        /\ \A i \in NamedNear : ExtractedName(i) = towns_in[i].name
        /\ (NamedNear # {} /\ \A i \in NamedNear :
                towns_in[i].name \in risk_result.vulnerable_targets) => ~R2Fired


RECURSIVE SumOver(_, _)
SumOver(f, S) ==
    IF S = {} THEN 0
    ELSE LET x == CHOOSE y \in S : TRUE IN f[x] + SumOver(f, S \ {x})

\* The orchestration attempts begun so far.
AttemptsBegun ==
    IF pc \in {"start", "physics"} THEN 0
    ELSE IF attempts > MAX_RETRIES THEN MAX_RETRIES + 1 ELSE attempts + 1

\* C30: the external invocations of one call are bounded.  Every wrapper
\* starts with its attempt number at zero, so an agent is invoked at most
\* RATE_LIMIT_RETRY_ATTEMPTS times in each orchestration attempt begun; with
\* at most MAX_RETRIES + 1 attempts that is at most 9 invocations of each
\* agent and at most 36 in all, however the rate limits and the rejections
\* fall.
C30_InvocationsBounded ==
    /\ [](/\ \A c \in Agents :
                /\ invocations[c] <= RATE_LIMIT_RETRY_ATTEMPTS * AttemptsBegun
                /\ invocations[c] <= 9
          /\ SumOver(invocations, Agents) <= 36)
    /\ [][\A c \in Agents :
            (calls[c].pc = "idle" /\ calls'[c].pc # "idle") =>
                /\ calls'[c].attempt = 0
                /\ invocations'[c] = invocations[c] + 1]_vars

\* Three attempts were rejected and in each of them every agent was
\* rate-limited twice before it answered: 36 invocations.
C30_Witness ==
    /\ ReturnedFallback
    /\ \A c \in Agents : invocations[c] = 9
    /\ SumOver(invocations, Agents) = 36

\* ------------------------------------------------------------------ the /ws handler: claims
\* The status dict of the request the handler serves.
WsTracker == heap[sessions[Ws].status_tracker]

\* C31: the last status_update the client is sent before analysis_complete
\* carries the status dict as execute_agent_graph left it, with validation
\* 'complete' or 'error'.
C31_FinalStatusDelivered ==
    \A i \in 1..Len(connection.sent) :
        connection.sent[i].type = "analysis_complete"
            => /\ i > 1
               /\ connection.sent[i - 1] = StatusUpdate(WsTracker)

\* C32: the polling task has left its loop only if execute_agent_graph has
\* returned, with the validated result or with the fallback; it is still
\* polling while an attempt is left to run.
C32_StopsOnlyAtTerminal ==
    connection.poller = "done" => sessions[Ws].pc = "returned"

\* C33: the polling task, once created, eventually leaves its loop, whether
\* execute_agent_graph returns the validated result, returns the fallback or
\* raises the failure of an agent call.
C33_PollerTerminates ==
    (connection.poller = "created") ~> (connection.poller = "done")

\* ------------------------------------------------------------------ the two orchestrators: claims
\* The dict of a recommendation with the field names of src/orchestrator.py.
Renamed(rec) == [consideration |-> rec.action, rationale |-> rec.rationale,
                 confidence_score |-> rec.confidence_score]

\* C34: the two orchestrators run the same loop.  On the same request and
\* the same answers of the agents, no call failing, they stand at the same
\* await after every segment with the same status dict, the same number of
\* attempts, the same feedback and the same previous recommendation (the
\* caller's in the first attempt, the dump of the rejected one afterwards,
\* each in the field names of its file), and they end alike: both with an
\* accepted attempt or both with the fallback, and the same computed_physics.
C34_SameLoop ==
    /\ standalone.pc = pc
    /\ standalone.status_tracker = status_tracker
    /\ standalone.attempts = attempts
    /\ standalone.validator_feedback = validator_feedback
    /\ standalone.current_previous_rec =
            IF attempts = 0 THEN current_previous_rec ELSE Renamed(current_previous_rec)
    /\ pc = "returned" =>
            /\ (standalone.errors = <<>>) <=> (errors = <<>>)
            /\ standalone.result.computed_physics = result.computed_physics

\* Both have returned, one attempt rejected and the next accepted.
C34_Witness ==
    /\ pc = "returned"
    /\ standalone.pc = "returned"
    /\ attempts = 1
    /\ standalone.attempts = 1
    /\ errors = <<>>
    /\ standalone.errors = <<>>

\* ------------------------------------------------------------------ the push channel: claims
\* C35: a client is removed from connected_clients at most once.  The remove
\* of websocket_endpoint is never executed for a client that is no longer in
\* the list, and once the endpoint has handled the disconnect and no
\* broadcast is running, the client is not in the list.
C35_RemovedAtMostOnce ==
    \A w \in Clients :
        /\ endpoints[w] # "value_error"
        /\ (endpoints[w] = "ended" /\ broadcast_call.pc = "idle")
                => ~Contains(connected_clients, w)

====
